---- MODULE Spec2Model ----
(***************************************************************************)
(* Transition-state geometry construction of automol                       *)
(* (src/automol/reac/_geom.py): one call of ts_geometry, or of one of the  *)
(* eight class recipes, followed statement by statement.                   *)
(*                                                                         *)
(* Distances are in tenths of an angstrom (1.7 A = 17), angles in degrees. *)
(* A Reaction is immutable: the model reveals an attribute of its forward  *)
(* TS graph at the statement that first reads it.  Collaborators that are  *)
(* not part of reac/_geom.py (distances, join, the bounds assembler, the   *)
(* refiner) are represented by the arguments they are called with and by   *)
(* an opaque result.                                                       *)
(***************************************************************************)
EXTENDS Integers, Sequences, FiniteSets, TLC

\* ------------------------------------------------------------------ bounds
MaxGeos == 3
MaxBonds == 2
MaxRings == 2
MaxAtomKey == 2
MaxChain == 5

\* None, as a key of an angle or dihedral tuple and as an omitted keyword
None == -1

\* ------------------------------------------------- classes and recipes
\* the eight tags of par.ReactionClass the dispatch table knows
RegisteredClasses ==
    { "HYDROGEN_MIGRATION", "BETA_SCISSION", "RING_FORM_SCISSION",
      "ELIMINATION", "HYDROGEN_ABSTRACTION", "ADDITION", "INSERTION",
      "SUBSTITUTION" }

\* rxn.class_ may hold any tag; "OTHER" stands for one the table lacks
Classes == RegisteredClasses \cup { "OTHER" }

Recipes ==
    { "hydrogen_migration_ts_geometry", "beta_scission_ts_geometry",
      "ring_forming_scission_ts_geometry", "elimination_ts_geometry",
      "hydrogen_abstraction_ts_geometry", "addition_ts_geometry",
      "insertion_ts_geometry", "substitution_ts_geometry" }

\* a dispatch table with two entries exchanged
function_dct_swapped ==
    [ c \in RegisteredClasses |->
        CASE c = "HYDROGEN_MIGRATION"   -> "hydrogen_migration_ts_geometry"
          [] c = "BETA_SCISSION"        -> "beta_scission_ts_geometry"
          [] c = "RING_FORM_SCISSION"   -> "ring_forming_scission_ts_geometry"
          [] c = "ELIMINATION"          -> "elimination_ts_geometry"
          [] c = "HYDROGEN_ABSTRACTION" -> "hydrogen_abstraction_ts_geometry"
          [] c = "ADDITION"             -> "insertion_ts_geometry"
          [] c = "INSERTION"            -> "addition_ts_geometry"
          [] c = "SUBSTITUTION"         -> "substitution_ts_geometry" ]

\* a dispatch table that sends every unknown class to a default recipe
function_dct_total ==
    [ c \in Classes |->
        CASE c = "HYDROGEN_MIGRATION"   -> "hydrogen_migration_ts_geometry"
          [] c = "BETA_SCISSION"        -> "beta_scission_ts_geometry"
          [] c = "RING_FORM_SCISSION"   -> "ring_forming_scission_ts_geometry"
          [] c = "ELIMINATION"          -> "elimination_ts_geometry"
          [] c = "HYDROGEN_ABSTRACTION" -> "hydrogen_abstraction_ts_geometry"
          [] c = "ADDITION"             -> "addition_ts_geometry"
          [] c = "INSERTION"            -> "insertion_ts_geometry"
          [] c = "SUBSTITUTION"         -> "substitution_ts_geometry"
          [] OTHER                      -> "addition_ts_geometry" ]

\* function_dct of ts_geometry
function_dct ==
    [ c \in RegisteredClasses |->
        CASE c = "HYDROGEN_MIGRATION"   -> "hydrogen_migration_ts_geometry"
          [] c = "BETA_SCISSION"        -> "beta_scission_ts_geometry"
          [] c = "RING_FORM_SCISSION"   -> "ring_forming_scission_ts_geometry"
          [] c = "ELIMINATION"          -> "elimination_ts_geometry"
          [] c = "HYDROGEN_ABSTRACTION" -> "hydrogen_abstraction_ts_geometry"
          [] c = "ADDITION"             -> "addition_ts_geometry"
          [] c = "INSERTION"            -> "insertion_ts_geometry"
          [] c = "SUBSTITUTION"         -> "substitution_ts_geometry" ]

\* the class a recipe asserts in its first statement
AssertedClass(r) ==
    CASE r = "hydrogen_migration_ts_geometry"    -> "HYDROGEN_MIGRATION"
      [] r = "beta_scission_ts_geometry"         -> "BETA_SCISSION"
      [] r = "ring_forming_scission_ts_geometry" -> "RING_FORM_SCISSION"
      [] r = "elimination_ts_geometry"           -> "ELIMINATION"
      [] r = "hydrogen_abstraction_ts_geometry"  -> "HYDROGEN_ABSTRACTION"
      [] r = "addition_ts_geometry"              -> "ADDITION"
      [] r = "insertion_ts_geometry"             -> "INSERTION"
      [] r = "substitution_ts_geometry"          -> "SUBSTITUTION"

Unimolecular ==
    { "hydrogen_migration_ts_geometry", "beta_scission_ts_geometry",
      "ring_forming_scission_ts_geometry", "elimination_ts_geometry" }

Bimolecular == Recipes \ Unimolecular

\* the number of names rct_geos is unpacked into
Arity(r) == IF r \in Unimolecular THEN 1 ELSE 2

\* forming-bond counts with two names unpacked in hydrogen migration
NumForming_wrong(r) ==
    CASE r = "beta_scission_ts_geometry" -> 0
      [] r \in { "insertion_ts_geometry",
                 "hydrogen_migration_ts_geometry" } -> 2
      [] OTHER -> 1

\* the number of names ts.forming_bond_keys is unpacked into (0: not read)
NumForming(r) ==
    CASE r = "beta_scission_ts_geometry" -> 0
      [] r = "insertion_ts_geometry"     -> 2
      [] OTHER                           -> 1

\* the number of names ts.breaking_bond_keys is unpacked into (0: not read)
NumBreaking(r) ==
    IF r \in { "beta_scission_ts_geometry",
               "ring_forming_scission_ts_geometry" } THEN 1 ELSE 0

\* the number of names ts.forming_rings_atom_keys is unpacked into
NumRings(r) ==
    IF r \in { "elimination_ts_geometry", "insertion_ts_geometry" }
    THEN 1 ELSE 0

\* the recipes whose forming-bond distance comes from frm_bnd_dist_dct
UsesHCount(r) == r \in { "insertion_ts_geometry", "substitution_ts_geometry" }

\* ------------------------------------------------ per-recipe constants
\* frm_bnd_dist with the elimination value given to addition
frm_bnd_dist_wrong(r) ==
    CASE r = "hydrogen_migration_ts_geometry"    -> 17
      [] r = "ring_forming_scission_ts_geometry" -> 20
      [] r = "elimination_ts_geometry"           -> 16
      [] r = "hydrogen_abstraction_ts_geometry"  -> 16
      [] r = "addition_ts_geometry"              -> 16
      [] OTHER                                   -> None

\* frm_bnd_dist of the recipes with a fixed target (None: no such local)
frm_bnd_dist(r) ==
    CASE r = "hydrogen_migration_ts_geometry"    -> 17
      [] r = "ring_forming_scission_ts_geometry" -> 20
      [] r = "elimination_ts_geometry"           -> 16
      [] r = "hydrogen_abstraction_ts_geometry"  -> 16
      [] r = "addition_ts_geometry"              -> 19
      [] OTHER                                   -> None

\* brk_bnd_dist of the two scission recipes
brk_bnd_dist(r) ==
    CASE r = "beta_scission_ts_geometry"         -> 15
      [] r = "ring_forming_scission_ts_geometry" -> 15
      [] OTHER                                   -> None

\* a lookup whose entry for one hydrogen repeats the entry for none
frm_bnd_dist_dct_wrong == (0 :> 19) @@ (1 :> 19) @@ (2 :> 12)

\* frm_bnd_dist_dct of insertion and substitution
frm_bnd_dist_dct == (0 :> 19) @@ (1 :> 16) @@ (2 :> 12)

\* a123 of the bimolecular recipes
a123(r) ==
    CASE r = "hydrogen_abstraction_ts_geometry" -> 170
      [] r = "addition_ts_geometry"             -> 85
      [] r = "insertion_ts_geometry"            -> 170
      [] r = "substitution_ts_geometry"         -> 170
      [] OTHER                                  -> None

\* a234 with the sigma test of hydrogen abstraction inverted
a234_inverted(r, sigma) ==
    CASE r = "hydrogen_abstraction_ts_geometry" ->
             IF sigma THEN 85 ELSE 180
      [] r = "addition_ts_geometry"             -> 85
      [] r = "substitution_ts_geometry"         -> 95
      [] OTHER                                  -> None

\* a234: 180 for a sigma abstraction, else 85; insertion sets none
a234(r, sigma) ==
    CASE r = "hydrogen_abstraction_ts_geometry" ->
             IF sigma THEN 180 ELSE 85
      [] r = "addition_ts_geometry"             -> 85
      [] r = "substitution_ts_geometry"         -> 95
      [] OTHER                                  -> None

\* d1234: a dihedral constraint in ring-forming scission, a constraint and
\* a join argument in addition
d1234(r) ==
    CASE r = "ring_forming_scission_ts_geometry" -> 180
      [] r = "addition_ts_geometry"              -> 85
      [] OTHER                                   -> None

\* relax_ang set for every recipe
relax_ang_all(r) == TRUE

\* relax_ang of each recipe
relax_ang(r) ==
    r \in { "hydrogen_migration_ts_geometry",
            "ring_forming_scission_ts_geometry", "elimination_ts_geometry",
            "insertion_ts_geometry", "substitution_ts_geometry" }

\* relax_tors of each recipe
relax_tors(r) ==
    r \in { "hydrogen_migration_ts_geometry",
            "ring_forming_scission_ts_geometry", "elimination_ts_geometry",
            "insertion_ts_geometry", "substitution_ts_geometry" }

\* ---------------------------------------------------------- data values
AtomKeys == 0 .. MaxAtomKey

\* a bond key is a set of two atom keys
BondKeys == { k \in SUBSET AtomKeys : Cardinality(k) = 2 }

Symbols == { "H", "C" }

\* sorted(bnd_key) of a two-atom key, as the pair (key2, key3)
sorted(k) ==
    LET lo == CHOOSE a \in k : \A b \in k : a <= b
        hi == CHOOSE a \in k : \A b \in k : b <= a
    IN  << lo, hi >>

\* automol.graph.atom_count_by_type(tsg, symb, keys=keys)
atom_count_by_type(syms, symb, keys) ==
    Cardinality({ k \in keys : syms[k] = symb })

Range(s) == { s[i] : i \in DOMAIN s }

\* the sequences of n distinct bond keys (an unpacked frozenset, whose
\* iteration order is not fixed)
KeySeqs(n) ==
    { s \in [1 .. n -> BondKeys] :
        \A i \in 1 .. n, j \in 1 .. n : i # j => s[i] # s[j] }

\* geometries: the caller's reactant geometries, the joined initial guess,
\* and the geometry built from the coordinates of refinement call idx
NoGeo == [kind |-> "none", idx |-> 0]
Reactant(i) == [kind |-> "reactant", idx |-> i]
Joined(i) == [kind |-> "joined", idx |-> i]
Refined(i) == [kind |-> "refined", idx |-> i]

\* a distance of the seed map: measured in geos, or a target value
Measured(geos) == [kind |-> "measured", val |-> None, geos |-> geos]
Target(v) == [kind |-> "target", val |-> v, geos |-> << >>]

\* automol.geom.ts.distances(geos, angstrom=True)
distances(geos) == [k \in BondKeys |-> Measured(geos)]

\* dct[key] = val
SetItem(dct, key, val) ==
    [k \in DOMAIN dct \cup { key } |-> IF k = key THEN val ELSE dct[k]]

\* dct.update(other)
update(dct, other) ==
    [k \in DOMAIN dct \cup DOMAIN other |->
        IF k \in DOMAIN other THEN other[k] ELSE dct[k]]

\* the first window of four chain keys only
windowed4_first(chain) ==
    { << chain[1], chain[2], chain[3], chain[4] >> }

\* mit.windowed(chain_keys, 4), for a chain of at least four keys
windowed4(chain) ==
    { << chain[i], chain[i + 1], chain[i + 2], chain[i + 3] >> :
        i \in 1 .. Len(chain) - 3 }

\* ------------------------------------------------------------------ state
VARIABLES
    entry,      \* the function the caller calls: "ts_geometry" or a recipe
    rxn,        \* the Reaction: class_ and the result of has_standard_keys()
    rct_geos,   \* the reactant geometries
    args,       \* the caller's max_dist_err and log
    debug,      \* __debug__: FALSE when assert statements are compiled out
    pc,         \* the statement group the call has reached
    recipe,     \* the class recipe entered ("none" before)
    kwargs,     \* max_dist_err and log as the recipe received them
    tsg,        \* what has been read of rxn.forward_ts_graph
    loc,        \* the recipe's local constraint values
    dist_dct,   \* the seed distance map
    seedCalls,  \* calls of distance_ranges_from_coordinates
    geo_init,   \* the initial coordinate guess
    joinCalls,  \* calls of automol.geom.ts.join
    bmatCalls,  \* calls of join_distance_bounds_matrices
    refCalls,   \* calls of automol.embed.cleaned_up_coordinates
    printed,    \* the lines printed by _geometry_from_info
    geo,        \* the recipe's geo
    result      \* what the caller gets: a geometry or an exception

inputs == << entry, rxn, rct_geos, args, debug >>

vars ==
    << entry, rxn, rct_geos, args, debug, pc, recipe, kwargs, tsg, loc,
       dist_dct, seedCalls, geo_init, joinCalls, bmatCalls, refCalls,
       printed, geo, result >>

\* the values of max_dist_err a caller passes (2: the default, 2e-1)
MaxDistErrs == { 1, 2 }

NoKwargs == [max_dist_err |-> None, log |-> FALSE]

Unread ==
    [nfrm |-> None, nbrk |-> None, nrings |-> None, frm |-> << >>,
     brk |-> << >>, syms |-> << >>, sigma |-> FALSE, chain |-> << >>]

NoLoc ==
    [frm_bnd_dist |-> << >>, brk_bnd_dist |-> << >>, hcnt |-> << >>,
     a123 |-> None, a234 |-> None, d1234 |-> None,
     key2 |-> None, key3 |-> None, pla_dct |-> << >>]

Pending == [kind |-> "pending", type |-> "", at |-> "", geo |-> NoGeo]
Exception(type, at) ==
    [kind |-> "exception", type |-> type, at |-> at, geo |-> NoGeo]
Returned(g) == [kind |-> "geometry", type |-> "", at |-> "", geo |-> g]

\* the classes of the reactions a function is called with: any class for
\* ts_geometry; for a recipe its own class, one other registered class and
\* an unregistered one (a recipe reads rxn.class_ in its assert only)
CalledWith(e) ==
    IF e = "ts_geometry" THEN Classes
    ELSE { AssertedClass(e), "OTHER",
           IF AssertedClass(e) = "ADDITION" THEN "INSERTION" ELSE "ADDITION" }

Init ==
    /\ entry \in { "ts_geometry" } \cup Recipes
    /\ rxn \in [class_ : CalledWith(entry), standard_keys : BOOLEAN]
    /\ rct_geos \in { [i \in 1 .. n |-> Reactant(i)] : n \in 0 .. MaxGeos }
    /\ args \in [max_dist_err : MaxDistErrs, log : BOOLEAN]
    /\ debug \in BOOLEAN
    /\ pc = "call"
    /\ recipe = "none"
    /\ kwargs = NoKwargs
    /\ tsg = Unread
    /\ loc = NoLoc
    /\ dist_dct = << >>
    /\ seedCalls = << >>
    /\ geo_init = NoGeo
    /\ joinCalls = << >>
    /\ bmatCalls = << >>
    /\ refCalls = << >>
    /\ printed = << >>
    /\ geo = NoGeo
    /\ result = Pending

\* an exception leaves the call: nothing else of the state changes
Raise(type, at) ==
    /\ result' = Exception(type, at)
    /\ pc' = "done"

\* ------------------------------------------------------------- dispatch
\* ts_geometry: the table lookup and the call of the recipe found
ts_geometry ==
    /\ pc = "call"
    /\ entry = "ts_geometry"
    /\ IF rxn.class_ \in DOMAIN function_dct
       THEN /\ recipe' = function_dct[rxn.class_]
            /\ kwargs' = [max_dist_err |-> args.max_dist_err,
                          log |-> args.log]
            /\ pc' = "prechecks"
            /\ UNCHANGED result
       ELSE /\ Raise("KeyError", "function_dct[rxn.class_]")
            /\ UNCHANGED << recipe, kwargs >>
    /\ UNCHANGED << inputs, tsg, loc, dist_dct, seedCalls, geo_init,
                    joinCalls, bmatCalls, refCalls, printed, geo >>

\* a caller calls a class recipe itself
CallRecipe ==
    /\ pc = "call"
    /\ entry \in Recipes
    /\ recipe' = entry
    /\ kwargs' = [max_dist_err |-> args.max_dist_err, log |-> args.log]
    /\ pc' = "prechecks"
    /\ UNCHANGED << inputs, tsg, loc, dist_dct, seedCalls, geo_init,
                    joinCalls, bmatCalls, refCalls, printed, geo, result >>

\* the opening statements without the assert on has_standard_keys()
Prechecks_unchecked ==
    /\ pc = "prechecks"
    /\ IF debug /\ rxn.class_ # AssertedClass(recipe)
       THEN Raise("AssertionError", "rxn.class_")
       ELSE pc' = "constraints" /\ UNCHANGED result
    /\ UNCHANGED << inputs, recipe, kwargs, tsg, loc, dist_dct, seedCalls,
                    geo_init, joinCalls, bmatCalls, refCalls, printed, geo >>

\* the two assert statements that open every recipe
Prechecks ==
    /\ pc = "prechecks"
    /\ IF debug /\ rxn.class_ # AssertedClass(recipe)
       THEN Raise("AssertionError", "rxn.class_")
       ELSE IF debug /\ ~rxn.standard_keys
            THEN Raise("AssertionError", "rxn.has_standard_keys()")
            ELSE pc' = "constraints" /\ UNCHANGED result
    /\ UNCHANGED << inputs, recipe, kwargs, tsg, loc, dist_dct, seedCalls,
                    geo_init, joinCalls, bmatCalls, refCalls, printed, geo >>

\* ---------------------------------------------------- constraint values
\* the counts a recipe may find when it unpacks a key collection it reads
Counts(expected, max) == IF expected = 0 THEN { None } ELSE 0 .. max

\* the recipe's locals once the TS graph g has been read
Locals(r, g) ==
    LET hcnt == IF UsesHCount(r)
                THEN [i \in DOMAIN g.frm |->
                        atom_count_by_type(g.syms, "H", g.frm[i])]
                ELSE << >>
    IN  [frm_bnd_dist |->
             IF UsesHCount(r)
             THEN [i \in DOMAIN g.frm |-> frm_bnd_dist_dct[hcnt[i]]]
             ELSE [i \in DOMAIN g.frm |-> frm_bnd_dist(r)],
         brk_bnd_dist |-> [i \in DOMAIN g.brk |-> brk_bnd_dist(r)],
         hcnt |-> hcnt,
         a123 |-> a123(r),
         a234 |-> a234(r, g.sigma),
         d1234 |-> d1234(r),
         key2 |-> None,
         key3 |-> None,
         pla_dct |-> << >>]

\* the statements from the asserts to the seed distances: the forming and
\* breaking bond keys and forming rings are unpacked (ValueError when the
\* count is not the number of names), hydrogens are counted, the sigma test
\* is made, and the target distances and angles are set
ConstraintBuilder ==
    /\ pc = "constraints"
    /\ \E nf \in Counts(NumForming(recipe), MaxBonds) :
         IF nf \notin { None, NumForming(recipe) }
         THEN /\ tsg' = [tsg EXCEPT !.nfrm = nf]
              /\ Raise("ValueError", "ts.forming_bond_keys")
              /\ UNCHANGED loc
         ELSE \E nb \in Counts(NumBreaking(recipe), MaxBonds) :
           IF nb \notin { None, NumBreaking(recipe) }
           THEN /\ tsg' = [tsg EXCEPT !.nfrm = nf, !.nbrk = nb]
                /\ Raise("ValueError", "ts.breaking_bond_keys")
                /\ UNCHANGED loc
           ELSE \E nr \in Counts(NumRings(recipe), MaxRings) :
             IF nr \notin { None, NumRings(recipe) }
             THEN /\ tsg' = [tsg EXCEPT !.nfrm = nf, !.nbrk = nb,
                                        !.nrings = nr]
                  /\ Raise("ValueError", "ts.forming_rings_atom_keys")
                  /\ UNCHANGED loc
             ELSE \E frm \in KeySeqs(NumForming(recipe)),
                     brk \in KeySeqs(NumBreaking(recipe)),
                     sigma \in IF recipe = "hydrogen_abstraction_ts_geometry"
                               THEN BOOLEAN ELSE { FALSE } :
                  \E syms \in IF UsesHCount(recipe)
                              THEN [UNION Range(frm) -> Symbols]
                              ELSE { << >> } :
                    /\ Range(frm) \cap Range(brk) = { }
                    /\ tsg' = [tsg EXCEPT !.nfrm = nf, !.nbrk = nb,
                                          !.nrings = nr, !.frm = frm,
                                          !.brk = brk, !.syms = syms,
                                          !.sigma = sigma]
                    /\ loc' = Locals(recipe, tsg')
                    /\ pc' = "seed"
                    /\ UNCHANGED result
    /\ UNCHANGED << inputs, recipe, kwargs, dist_dct, seedCalls, geo_init,
                    joinCalls, bmatCalls, refCalls, printed, geo >>

\* dist_dct with the target of every forming and breaking bond key set,
\* in the order of the assignments
WithTargets(dct, g, l) ==
    LET RECURSIVE Set(_, _, _, _)
        Set(d, keys, vals, i) ==
            IF i > Len(keys) THEN d
            ELSE Set(SetItem(d, keys[i], Target(vals[i])), keys, vals, i + 1)
    IN  Set(Set(dct, g.frm, l.frm_bnd_dist, 1), g.brk, l.brk_bnd_dist, 1)

\* dist_dct = automol.geom.ts.distances(rct_geos); dist_dct[key] = target.
\* What distances does with a number of geometries that does not fit the
\* graph is not fixed by this repository's sources: it returns or raises.
SeedDistances ==
    /\ pc = "seed"
    /\ \/ /\ dist_dct' = WithTargets(distances(rct_geos), tsg, loc)
          /\ pc' = "ranges"
          /\ UNCHANGED result
       \/ /\ Len(rct_geos) # Arity(recipe)
          /\ Raise("Exception", "automol.geom.ts.distances")
          /\ UNCHANGED dist_dct
    /\ UNCHANGED << inputs, recipe, kwargs, tsg, loc, seedCalls, geo_init,
                    joinCalls, bmatCalls, refCalls, printed, geo >>

\* the chains ring_forming_scission_chain may return
Chains == { [i \in 1 .. n |-> i - 1] : n \in 3 .. MaxChain }

\* ang_dct of hydrogen abstraction, addition and substitution
ang_dct(r, l, k2, k3) ==
    IF r \in { "hydrogen_abstraction_ts_geometry", "addition_ts_geometry",
               "substitution_ts_geometry" }
    THEN (<< None, k2, k3 >> :> l.a123) @@ (<< k2, k3, None >> :> l.a234)
    ELSE << >>

\* dih_dct of pass 1 of ring-forming scission and of addition
dih_dct(r, l, k2, k3, chain) ==
    CASE r = "ring_forming_scission_ts_geometry" ->
             << chain[1], chain[2], chain[3], chain[4] >>
                 :> << l.d1234, None >>
      [] r = "addition_ts_geometry" ->
             << None, k2, k3, None >> :> l.d1234
      [] OTHER -> << >>

\* the forming rings handed over as rings_keys
rings_keys(r, g) ==
    IF NumRings(r) = 1 THEN [i \in 1 .. g.nrings |-> i] ELSE << >>

\* gra = ts.reactants_graph(...); dist_range_dct =
\* distance_ranges_from_coordinates(gra, dist_dct, ...), with the angle and
\* dihedral constraints of the recipe built just before it
DistanceRanges ==
    /\ pc = "ranges"
    /\ \E chain \in IF recipe = "ring_forming_scission_ts_geometry"
                    THEN Chains ELSE { << >> } :
         \/ /\ recipe = "ring_forming_scission_ts_geometry" => Len(chain) >= 4
            /\ LET k == IF tsg.frm = << >> THEN << None, None >>
                        ELSE sorted(tsg.frm[1])
                   keyed == recipe \in { "hydrogen_abstraction_ts_geometry",
                                         "addition_ts_geometry",
                                         "substitution_ts_geometry" }
                   l == IF keyed
                        THEN [loc EXCEPT !.key2 = k[1], !.key3 = k[2]]
                        ELSE loc
               IN  /\ loc' = l
                   /\ tsg' = [tsg EXCEPT !.chain = chain]
                   /\ seedCalls' = Append(seedCalls,
                         [dist_dct |-> dist_dct,
                          ang_dct |-> ang_dct(recipe, l, k[1], k[2]),
                          dih_dct |-> dih_dct(recipe, l, k[1], k[2], chain),
                          rings_keys |-> rings_keys(recipe, tsg)])
            /\ pc' = "guess"
            /\ UNCHANGED result
         \/ /\ recipe = "ring_forming_scission_ts_geometry"
            /\ Len(chain) < 4
            /\ tsg' = [tsg EXCEPT !.chain = chain]
            /\ Raise("ValueError", "chain_keys[:4]")
            /\ UNCHANGED << loc, seedCalls >>
         \/ /\ Len(rct_geos) # Arity(recipe)
            /\ Raise("Exception", "distance_ranges_from_coordinates")
            /\ UNCHANGED << tsg, loc, seedCalls >>
    /\ UNCHANGED << inputs, recipe, kwargs, dist_dct, geo_init, joinCalls,
                    bmatCalls, refCalls, printed, geo >>

\* ---------------------------------------------------------- initial guess
\* the forming bond key the join is made at
join_key(r, g, l) ==
    IF r = "insertion_ts_geometry"
    THEN IF l.hcnt[1] <= l.hcnt[2] THEN g.frm[1] ELSE g.frm[2]
    ELSE g.frm[1]

\* the arguments of automol.geom.ts.join(geo1, geo2, key2=, key3=, r23=, ...)
join_args(r, g, l, geos) ==
    LET k == sorted(join_key(r, g, l))
    IN  [geo1 |-> geos[1], geo2 |-> geos[2], key2 |-> k[1], key3 |-> k[2],
         r23 |-> l.frm_bnd_dist[1],
         a123 |-> l.a123,
         a234 |-> IF r = "insertion_ts_geometry" THEN None ELSE l.a234,
         d1234 |-> IF r = "addition_ts_geometry" THEN l.d1234 ELSE None]

\* an initial guess that indexes rct_geos, so that surplus geometries pass
InitialGuess_lenient ==
    /\ pc = "guess"
    /\ IF Len(rct_geos) < Arity(recipe)
       THEN /\ Raise("IndexError", "rct_geos")
            /\ UNCHANGED << geo_init, joinCalls, loc >>
       ELSE /\ IF recipe \in Unimolecular
               THEN /\ geo_init' = rct_geos[1]
                    /\ UNCHANGED << joinCalls, loc >>
               ELSE LET j == join_args(recipe, tsg, loc, rct_geos)
                    IN  /\ joinCalls' = Append(joinCalls, j)
                        /\ geo_init' = Joined(Len(joinCalls'))
                        /\ loc' = [loc EXCEPT !.key2 = j.key2,
                                              !.key3 = j.key3]
            /\ pc' = "refine"
            /\ UNCHANGED result
    /\ UNCHANGED << inputs, recipe, kwargs, tsg, dist_dct, seedCalls,
                    bmatCalls, refCalls, printed, geo >>

\* rct_geos is unpacked (ValueError when their number is not the number of
\* names); geo_init is the sole reactant geometry, or the join of the two
InitialGuess ==
    /\ pc = "guess"
    /\ IF Len(rct_geos) # Arity(recipe)
       THEN /\ Raise("ValueError", "rct_geos")
            /\ UNCHANGED << geo_init, joinCalls, loc >>
       ELSE /\ IF recipe \in Unimolecular
               THEN /\ geo_init' = rct_geos[1]
                    /\ UNCHANGED << joinCalls, loc >>
               ELSE LET j == join_args(recipe, tsg, loc, rct_geos)
                    IN  /\ joinCalls' = Append(joinCalls, j)
                        /\ geo_init' = Joined(Len(joinCalls'))
                        /\ loc' = [loc EXCEPT !.key2 = j.key2,
                                              !.key3 = j.key3]
            /\ pc' = "refine"
            /\ UNCHANGED result
    /\ UNCHANGED << inputs, recipe, kwargs, tsg, dist_dct, seedCalls,
                    bmatCalls, refCalls, printed, geo >>

\* ------------------------------------------------------------ refinement
\* what planarity_constraint_bounds(gra, keys) may return: nothing, or a
\* bound for the first four atom keys
planarity_constraint_bounds == { << >>, << 0, 1, 2, 3 >> :> << -1, 1 >> }

\* what automol.embed.cleaned_up_coordinates may return for a tolerance mde:
\* the verdict conv and, for the coordinates returned, the largest deviation
\* err of a forming-bond distance from its target. conv is returned only
\* with every violation within mde (err at most mde, taken at mde);
\* best-effort coordinates violate some bound by more than mde, the forming
\* bond's among them (mde + 1) or not (0)
cleaned_up_coordinates(mde) ==
    { [conv |-> TRUE, err |-> mde],
      [conv |-> FALSE, err |-> 0],
      [conv |-> FALSE, err |-> mde + 1] }

\* the message that swaps the two verdicts
message_swapped(conv) == IF conv THEN "Did not converge." ELSE "Converged!"

\* the message _geometry_from_info prints
message(conv) == IF conv THEN "Converged!" ELSE "Did not converge."

\* _geometry_from_info(gra, geos, init, dist_range_dct, relax_ang=ra,
\* relax_tors=rt, pla_dct=pla, max_dist_err=mde, log=lg): the bounds
\* matrices, the chirality and planarity constraints, the refinement with
\* either verdict, the message, and the geometry of the refined coordinates
geometry_from_info(geos, init, ra, rt, pla, mde, lg) ==
    \E out \in cleaned_up_coordinates(mde),
       gpla \in planarity_constraint_bounds :
      /\ bmatCalls' = Append(bmatCalls,
            [dist_range_dct |-> Len(seedCalls), geos |-> geos,
             relax_angles |-> ra, relax_torsions |-> rt])
      /\ refCalls' = Append(refCalls,
            [xmat |-> init, bounds |-> Len(bmatCalls'),
             chi_dct |-> "chirality_constraint_bounds",
             pla_arg |-> pla, pla_dct |-> update(pla, gpla),
             max_dist_err |-> mde, log |-> lg, conv |-> out.conv,
             err |-> out.err])
      /\ printed' = IF lg THEN Append(printed, message(out.conv))
                    ELSE printed
      /\ geo' = Refined(Len(refCalls'))

\* a first pass after which ring-forming scission goes on only if converged
Refine_conditional ==
    /\ pc = "refine"
    /\ geometry_from_info(rct_geos, geo_init, relax_ang(recipe),
                          relax_tors(recipe), << >>, kwargs.max_dist_err,
                          kwargs.log)
    /\ pc' = IF /\ recipe = "ring_forming_scission_ts_geometry"
                /\ refCalls'[1].conv
             THEN "seed2" ELSE "return"
    /\ UNCHANGED << inputs, recipe, kwargs, tsg, loc, dist_dct, seedCalls,
                    geo_init, joinCalls, result >>

\* the recipe's call of _geometry_from_info
Refine ==
    /\ pc = "refine"
    /\ geometry_from_info(rct_geos, geo_init, relax_ang(recipe),
                          relax_tors(recipe), << >>, kwargs.max_dist_err,
                          kwargs.log)
    /\ pc' = IF recipe = "ring_forming_scission_ts_geometry"
             THEN "seed2" ELSE "return"
    /\ UNCHANGED << inputs, recipe, kwargs, tsg, loc, dist_dct, seedCalls,
                    geo_init, joinCalls, result >>

\* ring-forming scission, second pass: the seed distances are measured in
\* the geometry of the first pass and the two targets set again; every
\* window of four chain keys gets the planarity bounds (0.0, 0.0)
RfsSeedDistances ==
    /\ pc = "seed2"
    /\ dist_dct' = WithTargets(distances(<< geo >>), tsg, loc)
    /\ loc' = [loc EXCEPT !.pla_dct =
                  [w \in windowed4(tsg.chain) |-> << 0, 0 >>]]
    /\ pc' = "ranges2"
    /\ UNCHANGED << inputs, recipe, kwargs, tsg, seedCalls, geo_init,
                    joinCalls, bmatCalls, refCalls, printed, geo, result >>

\* second pass: distance_ranges_from_coordinates(gra, dist_dct)
RfsDistanceRanges ==
    /\ pc = "ranges2"
    /\ seedCalls' = Append(seedCalls,
          [dist_dct |-> dist_dct, ang_dct |-> << >>, dih_dct |-> << >>,
           rings_keys |-> << >>])
    /\ pc' = "refine2"
    /\ UNCHANGED << inputs, recipe, kwargs, tsg, loc, dist_dct, geo_init,
                    joinCalls, bmatCalls, refCalls, printed, geo, result >>

\* second pass: _geometry_from_info(gra, [geo], geo, ..., pla_dct=pla_dct)
RfsRefine ==
    /\ pc = "refine2"
    /\ geometry_from_info(<< geo >>, geo, relax_ang(recipe),
                          relax_tors(recipe), loc.pla_dct,
                          kwargs.max_dist_err, kwargs.log)
    /\ pc' = "return"
    /\ UNCHANGED << inputs, recipe, kwargs, tsg, loc, dist_dct, seedCalls,
                    geo_init, joinCalls, result >>

\* return geo, from the recipe and from ts_geometry alike
Return ==
    /\ pc = "return"
    /\ result' = Returned(geo)
    /\ pc' = "done"
    /\ UNCHANGED << inputs, recipe, kwargs, tsg, loc, dist_dct, seedCalls,
                    geo_init, joinCalls, bmatCalls, refCalls, printed, geo >>

Next ==
    \/ ts_geometry
    \/ CallRecipe
    \/ Prechecks
    \/ ConstraintBuilder
    \/ SeedDistances
    \/ DistanceRanges
    \/ InitialGuess
    \/ Refine
    \/ RfsSeedDistances
    \/ RfsDistanceRanges
    \/ RfsRefine
    \/ Return

Spec == Init /\ [][Next]_vars

\* ------------------------------------------------------------------ claims
Entered == recipe # "none"
Done == pc = "done"

\* nothing of the pipeline after the prechecks has run
NothingComputed ==
    /\ tsg = Unread
    /\ dist_dct = << >>
    /\ seedCalls = << >>
    /\ geo_init = NoGeo
    /\ joinCalls = << >>
    /\ bmatCalls = << >>
    /\ refCalls = << >>
    /\ geo = NoGeo

\* C1: called for a reaction of one of the eight registered classes,
\* ts_geometry enters the recipe of that class, the recipe and every
\* refinement call get the caller's max_dist_err and log, the geometry
\* returned is the recipe's geo, and the recipe's class assertion does not
\* fail.
C1_DispatchesToRegisteredRecipe ==
    (entry = "ts_geometry" /\ rxn.class_ \in RegisteredClasses /\ pc # "call")
    =>
    /\ rxn.class_ = "HYDROGEN_MIGRATION"
         => recipe = "hydrogen_migration_ts_geometry"
    /\ rxn.class_ = "BETA_SCISSION" => recipe = "beta_scission_ts_geometry"
    /\ rxn.class_ = "RING_FORM_SCISSION"
         => recipe = "ring_forming_scission_ts_geometry"
    /\ rxn.class_ = "ELIMINATION" => recipe = "elimination_ts_geometry"
    /\ rxn.class_ = "HYDROGEN_ABSTRACTION"
         => recipe = "hydrogen_abstraction_ts_geometry"
    /\ rxn.class_ = "ADDITION" => recipe = "addition_ts_geometry"
    /\ rxn.class_ = "INSERTION" => recipe = "insertion_ts_geometry"
    /\ rxn.class_ = "SUBSTITUTION" => recipe = "substitution_ts_geometry"
    /\ kwargs.max_dist_err = args.max_dist_err
    /\ kwargs.log = args.log
    /\ \A i \in DOMAIN refCalls :
         /\ refCalls[i].max_dist_err = args.max_dist_err
         /\ refCalls[i].log = args.log
    /\ result.kind = "geometry"
         => result.geo = geo /\ geo = Refined(Len(refCalls))
    /\ ~(result.kind = "exception" /\ result.at = "rxn.class_")

\* C1 witness: ts_geometry has returned the geometry of the insertion
\* recipe, called with a non-default max_dist_err and with log set
C1_Witness ==
    /\ entry = "ts_geometry"
    /\ rxn.class_ = "INSERTION"
    /\ args.max_dist_err = 1
    /\ args.log
    /\ result.kind = "geometry"

\* C2 as stated: a recipe called with a reaction that lacks standard keys
\* ends with a PrecheckError, nothing of the pipeline having run
C2_RaisesPrecheckError ==
    (Entered /\ ~rxn.standard_keys /\ rxn.class_ = AssertedClass(recipe)
        /\ Done)
    =>
    /\ result.kind = "exception"
    /\ result.type = "PrecheckError"
    /\ NothingComputed

\* C2: with assert statements enabled, a recipe called with a reaction
\* that lacks standard keys gets no further than its two asserts: it ends
\* with an AssertionError and no geometry, and no TS-graph read, seed
\* distance, bounds assembly, initial guess or refinement call has happened.
C2_AssertionErrorBeforePipeline ==
    (Entered /\ ~rxn.standard_keys /\ debug)
    =>
    /\ pc \in { "prechecks", "done" }
    /\ Done => /\ result.kind = "exception"
               /\ result.type = "AssertionError"
    /\ result.kind # "geometry"
    /\ NothingComputed

\* C2 witness: the assert on has_standard_keys() has failed in a recipe
\* entered for a reaction of its own class
C2_Witness ==
    /\ Entered
    /\ ~rxn.standard_keys
    /\ debug
    /\ rxn.class_ = AssertedClass(recipe)
    /\ Done
    /\ result.at = "rxn.has_standard_keys()"

\* a call that is sound in everything but the number of geometries, and
\* whose collaborators accepted them
ArityOnlyFault ==
    /\ Entered
    /\ Len(rct_geos) # Arity(recipe)
    /\ rxn.standard_keys
    /\ rxn.class_ = AssertedClass(recipe)
    /\ seedCalls # << >>

\* C3 as stated: a recipe called with the wrong number of reactant
\* geometries ends with a PrecheckError and no refinement call
C3_RaisesPrecheckError ==
    (ArityOnlyFault /\ Done)
    =>
    /\ result.kind = "exception"
    /\ result.type = "PrecheckError"
    /\ refCalls = << >>

\* C3: a recipe called with a number of reactant geometries other than its
\* arity never reaches bounds-matrix assembly or refinement and returns no
\* geometry; it ends with an exception that is not a PrecheckError, which
\* is the ValueError of unpacking rct_geos whenever the statements before
\* the unpacking have all passed.
C3_WrongArityFailsBeforeRefinement ==
    (Entered /\ Len(rct_geos) # Arity(recipe))
    =>
    /\ refCalls = << >>
    /\ bmatCalls = << >>
    /\ geo_init = NoGeo
    /\ geo = NoGeo
    /\ result.kind # "geometry"
    /\ pc \in { "prechecks", "constraints", "seed", "ranges", "guess", "done" }
    /\ Done => /\ result.kind = "exception"
               /\ result.type \in { "AssertionError", "ValueError",
                                    "Exception" }
    /\ (Done /\ seedCalls # << >>)
         => result.type = "ValueError" /\ result.at = "rct_geos"

\* C3 witness: a bimolecular recipe called with three geometries for a
\* sound reaction has failed at the unpacking of rct_geos
C3_Witness ==
    /\ ArityOnlyFault
    /\ recipe \in Bimolecular
    /\ Len(rct_geos) = 3
    /\ Done
    /\ result.type = "ValueError"

\* C4 as stated: ts_geometry for a class without a table entry ends with
\* UnsupportedReactionClass
C4_RaisesUnsupportedReactionClass ==
    (entry = "ts_geometry" /\ rxn.class_ \notin RegisteredClasses /\ Done)
    =>
    /\ result.kind = "exception"
    /\ result.type = "UnsupportedReactionClass"
    /\ ~Entered

\* C4: ts_geometry for a class without a table entry ends at once with
\* the KeyError of the table lookup: no recipe is entered, nothing of the
\* pipeline runs and no geometry is returned.
C4_KeyErrorOnUnregisteredClass ==
    (entry = "ts_geometry" /\ rxn.class_ \notin RegisteredClasses
        /\ pc # "call")
    =>
    /\ Done
    /\ result.kind = "exception"
    /\ result.type = "KeyError"
    /\ ~Entered
    /\ kwargs = NoKwargs
    /\ NothingComputed

\* C4 witness: the lookup has failed for an unregistered class
C4_Witness ==
    /\ entry = "ts_geometry"
    /\ rxn.class_ = "OTHER"
    /\ Done
    /\ result.type = "KeyError"

\* the six recipes whose targets are fixed numbers
FixedTargetRecipes ==
    { "hydrogen_migration_ts_geometry", "beta_scission_ts_geometry",
      "ring_forming_scission_ts_geometry", "elimination_ts_geometry",
      "hydrogen_abstraction_ts_geometry", "addition_ts_geometry" }

\* the seed map d holds the class's target at the forming / breaking key
HoldsFixedTargets(d) ==
    /\ recipe = "hydrogen_migration_ts_geometry"
         => d[tsg.frm[1]] = Target(17)
    /\ recipe = "beta_scission_ts_geometry" => d[tsg.brk[1]] = Target(15)
    /\ recipe = "ring_forming_scission_ts_geometry"
         => d[tsg.frm[1]] = Target(20) /\ d[tsg.brk[1]] = Target(15)
    /\ recipe = "elimination_ts_geometry" => d[tsg.frm[1]] = Target(16)
    /\ recipe = "hydrogen_abstraction_ts_geometry"
         => d[tsg.frm[1]] = Target(16)
    /\ recipe = "addition_ts_geometry" => d[tsg.frm[1]] = Target(19)

\* every entry of d but the forming / breaking keys is measured in geos
OthersMeasuredIn(d, geos) ==
    \A k \in DOMAIN d \ (Range(tsg.frm) \cup Range(tsg.brk)) :
        d[k] = Measured(geos)

\* C5 as stated: in every seed map handed to bounds assembly, both passes
\* of ring-forming scission included, the forming / breaking key holds the
\* class's target and every other entry is the distance measured in the
\* reactant geometries
C5_OthersFromReactantGeometries ==
    (recipe \in FixedTargetRecipes)
    =>
    \A i \in DOMAIN seedCalls :
        /\ DOMAIN seedCalls[i].dist_dct = BondKeys
        /\ HoldsFixedTargets(seedCalls[i].dist_dct)
        /\ OthersMeasuredIn(seedCalls[i].dist_dct, rct_geos)

\* C5: in every seed map handed to bounds assembly by the six recipes with
\* fixed targets, the forming / breaking key holds the class's target
\* (1.7; 1.5; 2.0 and 1.5 in both passes; 1.6; 1.6; 1.9) and every other
\* entry is the distance measured in the geometries the map was computed
\* from: the reactant geometries, and in the second pass of ring-forming
\* scission the geometry returned by the first pass.
C5_SeedMapHoldsTargets ==
    (recipe \in FixedTargetRecipes)
    =>
    \A i \in DOMAIN seedCalls :
        /\ DOMAIN seedCalls[i].dist_dct = BondKeys
        /\ HoldsFixedTargets(seedCalls[i].dist_dct)
        /\ OthersMeasuredIn(seedCalls[i].dist_dct,
                            IF i = 1 THEN rct_geos ELSE << Refined(1) >>)

\* C5 witness: ring-forming scission has handed over its second seed map
C5_Witness ==
    /\ recipe = "ring_forming_scission_ts_geometry"
    /\ Len(seedCalls) = 2
    /\ Len(rct_geos) = 1

\* the number of hydrogens among the atoms of the i-th forming bond key
HydrogensOf(i) ==
    Cardinality({ a \in tsg.frm[i] : tsg.syms[a] = "H" })

\* C6: in insertion and substitution every forming bond is given the
\* target 1.9, 1.6 or 1.2 according to its own count of 0, 1 or 2
\* hydrogens, no other count occurs, and that target is what the seed map
\* holds for the bond's key.
C6_TargetByHydrogenCount ==
    (UsesHCount(recipe) /\ tsg.frm # << >>)
    =>
    /\ Len(tsg.frm) = IF recipe = "insertion_ts_geometry" THEN 2 ELSE 1
    /\ \A i \in DOMAIN tsg.frm :
         /\ HydrogensOf(i) \in { 0, 1, 2 }
         /\ loc.hcnt[i] = HydrogensOf(i)
         /\ HydrogensOf(i) = 0 => loc.frm_bnd_dist[i] = 19
         /\ HydrogensOf(i) = 1 => loc.frm_bnd_dist[i] = 16
         /\ HydrogensOf(i) = 2 => loc.frm_bnd_dist[i] = 12
         /\ \A c \in DOMAIN seedCalls :
              seedCalls[c].dist_dct[tsg.frm[i]] = Target(loc.frm_bnd_dist[i])

\* C6 witness: insertion has handed over a seed map for two forming bonds
\* with different counts, one of them with two hydrogens
C6_Witness ==
    /\ recipe = "insertion_ts_geometry"
    /\ seedCalls # << >>
    /\ HydrogensOf(1) = 2
    /\ HydrogensOf(2) = 1

\* C7: in every call of bounds-matrix assembly relax_angles equals
\* relax_torsions; both are True in hydrogen migration, ring-forming
\* scission (both passes), elimination, insertion and substitution, and
\* False in beta scission, hydrogen abstraction and addition.
C7_RelaxationFlagsPerClass ==
    \A i \in DOMAIN bmatCalls :
        /\ bmatCalls[i].relax_angles = bmatCalls[i].relax_torsions
        /\ recipe \in { "hydrogen_migration_ts_geometry",
                        "ring_forming_scission_ts_geometry",
                        "elimination_ts_geometry", "insertion_ts_geometry",
                        "substitution_ts_geometry" }
             => bmatCalls[i].relax_angles = TRUE
        /\ recipe \in { "beta_scission_ts_geometry",
                        "hydrogen_abstraction_ts_geometry",
                        "addition_ts_geometry" }
             => bmatCalls[i].relax_angles = FALSE

\* C7 witness: beta scission has assembled its bounds matrices
C7_Witness ==
    /\ recipe = "beta_scission_ts_geometry"
    /\ Len(bmatCalls) = 1
    /\ result.kind = "geometry"

\* the join j is made at forming bond key k, keys ascending, at k's target
JoinedAt(j, k) ==
    /\ { j.key2, j.key3 } = k
    /\ j.key2 < j.key3
    /\ j.r23 = seedCalls[1].dist_dct[k].val

\* C8 as stated: the initial guess is the sole reactant geometry in the
\* unimolecular recipes and in the bimolecular ones the join of the two
\* reactant geometries at a forming bond, keys ascending, r23 that bond's
\* target, with the class's angles, which are also the constrained ones
C8_InitialGuessByClass ==
    (Entered /\ geo_init # NoGeo)
    =>
    /\ recipe \in Unimolecular
         => geo_init = Reactant(1) /\ joinCalls = << >>
    /\ recipe \in Bimolecular
         => /\ Len(joinCalls) = 1
            /\ geo_init = Joined(1)
            /\ joinCalls[1].geo1 = Reactant(1)
            /\ joinCalls[1].geo2 = Reactant(2)
            /\ \E k \in Range(tsg.frm) : JoinedAt(joinCalls[1], k)
    /\ recipe = "hydrogen_abstraction_ts_geometry"
         => /\ joinCalls[1].a123 = 170
            /\ joinCalls[1].a234 \in { 85, 180 }
            /\ joinCalls[1].d1234 = None
    /\ recipe = "addition_ts_geometry"
         => /\ joinCalls[1].a123 = 85
            /\ joinCalls[1].a234 = 85
            /\ joinCalls[1].d1234 = 85
            /\ \A t \in DOMAIN seedCalls[1].dih_dct :
                 seedCalls[1].dih_dct[t] = joinCalls[1].d1234
    /\ recipe = "insertion_ts_geometry"
         => /\ joinCalls[1].a123 = 170
            /\ joinCalls[1].a234 = None
            /\ joinCalls[1].d1234 = None
    /\ recipe = "substitution_ts_geometry"
         => /\ joinCalls[1].a123 = 170
            /\ joinCalls[1].a234 = 95
            /\ joinCalls[1].d1234 = None
    /\ recipe \in { "hydrogen_abstraction_ts_geometry",
                    "addition_ts_geometry", "substitution_ts_geometry" }
         => /\ seedCalls[1].ang_dct[<< None, joinCalls[1].key2,
                                       joinCalls[1].key3 >>]
                 = joinCalls[1].a123
            /\ seedCalls[1].ang_dct[<< joinCalls[1].key2,
                                       joinCalls[1].key3, None >>]
                 = joinCalls[1].a234

\* C9: in hydrogen abstraction the constraint on (None, key2, key3) is 170
\* degrees and the one on (key2, key3, None) is 180 degrees for a sigma
\* abstraction and 85 otherwise, key2 < key3 being the atoms of the forming
\* bond; the join is made with the same two angles.
C9_AbstractionAngles ==
    (recipe = "hydrogen_abstraction_ts_geometry" /\ seedCalls # << >>)
    =>
    \E k2 \in tsg.frm[1], k3 \in tsg.frm[1] :
        /\ k2 < k3
        /\ DOMAIN seedCalls[1].ang_dct
             = { << None, k2, k3 >>, << k2, k3, None >> }
        /\ seedCalls[1].ang_dct[<< None, k2, k3 >>] = 170
        /\ seedCalls[1].ang_dct[<< k2, k3, None >>]
             = IF tsg.sigma THEN 180 ELSE 85
        /\ \A c \in DOMAIN joinCalls :
             /\ joinCalls[c].key2 = k2
             /\ joinCalls[c].key3 = k3
             /\ joinCalls[c].a123 = 170
             /\ joinCalls[c].a234 = IF tsg.sigma THEN 180 ELSE 85

\* C9 witness: a sigma abstraction has been joined
C9_Witness ==
    /\ recipe = "hydrogen_abstraction_ts_geometry"
    /\ tsg.sigma
    /\ Len(joinCalls) = 1
    /\ joinCalls[1].a234 = 180

\* the refinement calls a recipe makes when it returns
Passes(r) == IF r = "ring_forming_scission_ts_geometry" THEN 2 ELSE 1

\* C10: a recipe never makes more refinement calls than one, or two in
\* ring-forming scission, whatever their verdicts, and has made exactly
\* that many when it returns; once the first pass of ring-forming scission
\* has returned, converged or not, the call is on its way to the second,
\* which starts from the geometry of the first.
C10_RefinementCalls ==
    Entered
    =>
    /\ Len(refCalls) <= Passes(recipe)
    /\ (pc = "return" \/ result.kind = "geometry")
         => Len(refCalls) = Passes(recipe)
    /\ (recipe = "ring_forming_scission_ts_geometry" /\ Len(refCalls) = 1)
         => pc \in { "seed2", "ranges2", "refine2" }
    /\ (recipe = "ring_forming_scission_ts_geometry" /\ Len(refCalls) = 2)
         => /\ refCalls[1].xmat = Reactant(1)
            /\ refCalls[2].xmat = Refined(1)

\* C10 witness: ring-forming scission has returned the geometry of its
\* second refinement after a first one that did not converge
C10_Witness ==
    /\ recipe = "ring_forming_scission_ts_geometry"
    /\ Len(refCalls) = 2
    /\ ~refCalls[1].conv
    /\ result.kind = "geometry"
    /\ result.geo = Refined(2)

\* ------------------------------------------------ C11: the verdict returned
\* the refinement whose coordinates the returned geometry holds
LastRefinement == refCalls[result.geo.idx]

\* C11: a call that returns hands its caller, as part of the value returned,
\* the verdict of the refinement that produced the geometry, so that a
\* geometry of a non-converged refinement can be told from a converged one
C11_ResultCarriesVerdict ==
    result.kind = "geometry" =>
        /\ "conv" \in DOMAIN result
        /\ result.conv = LastRefinement.conv

\* ------------------------------------- C12: the forming bond in the result
\* C12: in the geometry a call returns, every forming bond's distance is
\* within max_dist_err of its target, whatever the refinement's verdict
C12_FormingBondWithinTolerance ==
    (result.kind = "geometry" /\ NumForming(recipe) > 0) =>
        LastRefinement.err <= kwargs.max_dist_err

\* ------------------------------------------------- C13: what a call shows
\* C13: without log nothing is printed; with log the lines printed are, in
\* order, one per refinement call, "Converged!" for a converged call and
\* "Did not converge." otherwise; no step changes the Reaction or the
\* reactant geometries
C13_OnlyLoggingIsObservable ==
    /\ [](/\ ~args.log => printed = << >>
          /\ args.log =>
                /\ Len(printed) = Len(refCalls)
                /\ \A i \in DOMAIN printed :
                      printed[i] = IF refCalls[i].conv THEN "Converged!"
                                   ELSE "Did not converge.")
    /\ [][rxn' = rxn /\ rct_geos' = rct_geos]_vars

\* ring-forming scission returned with log set, its first pass not
\* converged and its second converged: two different lines were printed
C13_Witness ==
    /\ Done
    /\ result.kind = "geometry"
    /\ args.log
    /\ printed = << "Did not converge.", "Converged!" >>
    /\ rxn = [class_ |-> "RING_FORM_SCISSION", standard_keys |-> TRUE]

\* ------------------------------------------- C18: the counts a recipe needs
\* the numbers of forming bonds, breaking bonds and forming rings the class
\* of recipe r has (None: not stated)
ExpectedCounts(r) ==
    CASE r = "beta_scission_ts_geometry" ->
             [nfrm |-> None, nbrk |-> 1, nrings |-> None]
      [] r = "ring_forming_scission_ts_geometry" ->
             [nfrm |-> 1, nbrk |-> 1, nrings |-> None]
      [] r = "elimination_ts_geometry" ->
             [nfrm |-> 1, nbrk |-> None, nrings |-> 1]
      [] r = "insertion_ts_geometry" ->
             [nfrm |-> 2, nbrk |-> None, nrings |-> 1]
      [] OTHER -> [nfrm |-> 1, nbrk |-> None, nrings |-> None]

\* what the recipe has read of the TS graph is what its class has
CountsAsExpected ==
    LET x == ExpectedCounts(recipe)
    IN  /\ x.nfrm # None => tsg.nfrm = x.nfrm
        /\ x.nbrk # None => tsg.nbrk = x.nbrk
        /\ x.nrings # None => tsg.nrings = x.nrings

\* a count the recipe has read is not the count its class has
CountOff ==
    LET x == ExpectedCounts(recipe)
    IN  \/ x.nfrm # None /\ tsg.nfrm \notin { None, x.nfrm }
        \/ x.nbrk # None /\ tsg.nbrk \notin { None, x.nbrk }
        \/ x.nrings # None /\ tsg.nrings \notin { None, x.nrings }

\* C18: a recipe gets to its distance ranges and bounds matrices only with
\* exactly the forming bonds, breaking bonds and forming rings of its
\* class; with any other count it fails and returns no geometry
C18_CountsCheckedBeforeBounds ==
    Entered =>
        /\ (seedCalls # << >> \/ bmatCalls # << >>) => CountsAsExpected
        /\ CountOff =>
              /\ result.kind = "exception"
              /\ seedCalls = << >> /\ bmatCalls = << >> /\ refCalls = << >>
              /\ geo = NoGeo

\* elimination found one forming bond and two forming rings, and failed
C18_Witness ==
    /\ recipe = "elimination_ts_geometry"
    /\ tsg.nfrm = 1
    /\ tsg.nrings = 2
    /\ Done
    /\ result.type = "ValueError"

\* ------------------------------- C19: the two passes of ring-forming scission
\* the seed map d holds 2.0 for the forming and 1.5 for the breaking bond
\* and, for every other pair, the distance measured in geos
RfsSeedMap(d, geos) ==
    \A k \in DOMAIN d :
        d[k] = IF k = tsg.frm[1] THEN Target(20)
               ELSE IF k = tsg.brk[1] THEN Target(15)
               ELSE Measured(geos)

\* C19: pass 1 of ring-forming scission takes its distances from the
\* reactant geometry, constrains the dihedral of the first four chain keys
\* to (180, None) and passes no planarity constraint; pass 2 takes its
\* distances from the geometry of pass 1, with the two targets set again,
\* has no dihedral constraint and passes the planarity bounds (0.0, 0.0)
\* for each of the len(chain) - 3 windows of four chain keys; the geometry
\* returned is that of pass 2
C19_TwoPassesOfRingFormingScission ==
    recipe = "ring_forming_scission_ts_geometry" =>
        LET c == tsg.chain
        IN  /\ Len(refCalls) >= 1 =>
                 /\ RfsSeedMap(seedCalls[1].dist_dct, rct_geos)
                 /\ seedCalls[1].dih_dct =
                        (<< c[1], c[2], c[3], c[4] >> :> << 180, None >>)
                 /\ refCalls[1].pla_arg = << >>
                 /\ refCalls[1].xmat = rct_geos[1]
                 /\ bmatCalls[1].dist_range_dct = 1
            /\ Len(refCalls) >= 2 =>
                 /\ RfsSeedMap(seedCalls[2].dist_dct, << Refined(1) >>)
                 /\ seedCalls[2].dih_dct = << >>
                 /\ DOMAIN refCalls[2].pla_arg =
                        { << c[i], c[i + 1], c[i + 2], c[i + 3] >> :
                            i \in 1 .. Len(c) - 3 }
                 /\ Cardinality(DOMAIN refCalls[2].pla_arg) = Len(c) - 3
                 /\ \A w \in DOMAIN refCalls[2].pla_arg :
                        refCalls[2].pla_arg[w] = << 0, 0 >>
                 /\ refCalls[2].xmat = Refined(1)
                 /\ bmatCalls[2].dist_range_dct = 2
                 /\ bmatCalls[2].geos = << Refined(1) >>
            /\ result.kind = "geometry" =>
                 /\ Len(refCalls) = 2
                 /\ result.geo = Refined(2)

\* ring-forming scission returned for a chain of five keys: two windows
C19_Witness ==
    /\ recipe = "ring_forming_scission_ts_geometry"
    /\ Done
    /\ result.kind = "geometry"
    /\ Len(tsg.chain) = 5
    /\ Cardinality(DOMAIN refCalls[2].pla_arg) = 2

\* --------------------------------------------- C20: the join of insertion
\* C20: insertion joins its two reactants at the forming bond with the
\* lower hydrogen count (the first on a tie), and the join distance r23 is
\* the target the seed distance map holds for that bond
C20_InsertionJoinDistance ==
    (recipe = "insertion_ts_geometry" /\ joinCalls # << >>) =>
        LET b == IF loc.hcnt[1] <= loc.hcnt[2] THEN tsg.frm[1]
                 ELSE tsg.frm[2]
        IN  /\ << joinCalls[1].key2, joinCalls[1].key3 >> = sorted(b)
            /\ dist_dct[b] = Target(joinCalls[1].r23)

\* ------------------------------- C21: the planarity constraints that arrive
\* C21: every planarity constraint passed to _geometry_from_info reaches
\* the refiner with the bounds it was passed with, the graph's own planarity
\* bounds being added only for 4-tuples that were not passed; so in pass 2
\* of ring-forming scission every window of the chain reaches the refiner
\* with the bounds (0.0, 0.0)
C21_CallerPlanarityBoundsKept ==
    \A i \in DOMAIN refCalls :
        \A w \in DOMAIN refCalls[i].pla_arg :
            /\ w \in DOMAIN refCalls[i].pla_dct
            /\ refCalls[i].pla_dct[w] = refCalls[i].pla_arg[w]

\* ================================================ automol.graph._graph_base
\* a molecular graph is the pair (atm_dct, bnd_dct): atom key -> (symbol,
\* implicit_hydrogen_valence, stereo_parity) and bond key -> (order,
\* stereo_parity); a stereo parity is None, False (0) or True (1)
MaxGraphKey == 2
MaxGraphAtoms == 3
MaxGraphBonds == 2

ATM_PROP_NAMES == << "symbol", "implicit_hydrogen_valence", "stereo_parity" >>
BND_PROP_NAMES == << "order", "stereo_parity" >>

atoms(gra) == gra[1]
bonds(gra) == gra[2]
atom_keys(gra) == DOMAIN atoms(gra)
bond_keys(gra) == DOMAIN bonds(gra)

ReturnedGraph(gra) == [kind |-> "graph", gra |-> gra]

\* automol.create.graph.from_atoms_and_bonds(atm_dct, bnd_dct): the graph of
\* the two dictionaries; what it does with a bond key that is not a pair of
\* atom keys is not fixed by this repository's sources: it returns or raises
from_atoms_and_bonds(atm_dct, bnd_dct) ==
    IF \A b \in DOMAIN bnd_dct :
          Cardinality(b) = 2 /\ b \subseteq DOMAIN atm_dct
    THEN { ReturnedGraph(<< atm_dct, bnd_dct >>) }
    ELSE { ReturnedGraph(<< atm_dct, bnd_dct >>),
           Exception("AssertionError", "from_atoms_and_bonds") }

\* dict_.transform_keys(dct, func) = dict(zip(map(func, dct.keys()),
\* dct.values())): where func maps two keys to one, the value kept is that
\* of the key iterated last, which the order of dct decides
transform_keys(dct, func) ==
    { d \in [{ func[k] : k \in DOMAIN dct } -> Range(dct)] :
        \A n \in DOMAIN d : \E k \in DOMAIN dct : func[k] = n /\ d[n] = dct[k] }

\* dict_.transform_values(dct, func)
transform_values(dct, func) == [k \in DOMAIN dct |-> func[dct[k]]]

\* the key map that ignores atm_key_dct
new_atm_key_dct_identity(gra, atm_key_dct) ==
    [k \in atom_keys(gra) \cup DOMAIN atm_key_dct |-> k]

\* new_atm_key_dct = dict(zip(orig_atm_keys, orig_atm_keys));
\* new_atm_key_dct.update(atm_key_dct)
new_atm_key_dct(gra, atm_key_dct) ==
    update([k \in atom_keys(gra) |-> k], atm_key_dct)

\* relabel(gra, atm_key_dct) with __debug__ = dbg: what it may return or raise
relabel(gra, atm_key_dct, dbg) ==
    IF dbg /\ ~(DOMAIN atm_key_dct \subseteq atom_keys(gra))
    THEN { Exception("AssertionError",
                     "set(atm_key_dct.keys()) <= orig_atm_keys") }
    ELSE LET nd == new_atm_key_dct(gra, atm_key_dct)
             _relabel_atom_key == [k \in atom_keys(gra) |-> nd[k]]
             _relabel_bond_key ==
                 [b \in bond_keys(gra) |-> { nd[k] : k \in b }]
         IN  UNION { from_atoms_and_bonds(a, b) :
                       a \in transform_keys(atoms(gra), _relabel_atom_key),
                       b \in transform_keys(bonds(gra), _relabel_bond_key) }

\* ------------------------------------------------------------ text of keys
DigitChars == << "0", "1", "2", "3", "4", "5", "6", "7", "8", "9" >>

\* str(n) of an integer, as its sequence of characters
RECURSIVE str(_)
str(n) ==
    IF n < 0 THEN << "-" >> \o str(0 - n)
    ELSE IF n < 10 THEN << DigitChars[n + 1] >>
    ELSE str(n \div 10) \o << DigitChars[(n % 10) + 1] >>

\* int(s) of a sequence of digit characters
RECURSIVE int(_)
int(s) ==
    LET d == CHOOSE i \in 0 .. 9 : DigitChars[i + 1] = s[Len(s)]
    IN  IF Len(s) = 1 THEN d ELSE 10 * int(SubSeq(s, 1, Len(s) - 1)) + d

\* sep.join(parts)
RECURSIVE join(_, _)
join(sep, parts) ==
    IF Len(parts) = 0 THEN << >>
    ELSE IF Len(parts) = 1 THEN parts[1]
    ELSE parts[1] \o << sep >> \o join(sep, Tail(parts))

\* s.split(sep)
RECURSIVE split(_, _)
split(s, sep) ==
    IF \A i \in DOMAIN s : s[i] # sep THEN << s >>
    ELSE LET i == CHOOSE j \in DOMAIN s :
                    s[j] = sep /\ \A h \in 1 .. j - 1 : s[h] # sep
         IN  << SubSeq(s, 1, i - 1) >>
                 \o split(SubSeq(s, i + 1, Len(s)), sep)

\* dict(zip(names, x))
zip_dict(names, x) ==
    LET n == IF Len(names) < Len(x) THEN Len(names) ELSE Len(x)
    IN  [name \in { names[i] : i \in 1 .. n } |->
            x[CHOOSE i \in 1 .. n : names[i] = name]]

\* tuple(map(x.__getitem__, names))
prop_tuple(names, x) == [i \in DOMAIN names |-> x[names[i]]]

\* yaml.dump(yaml_gra_dct, ...) and yaml.load(gra_str, ...): the text is the
\* document of the dictionary, and loading it gives the dictionary back
yaml_dump(yaml_gra_dct) == [document |-> yaml_gra_dct]
yaml_load(gra_str) == gra_str.document

\* ----------------------------------------------------------------- YAML I/O
\* the YAML dictionary of the graph gra as it is after the index shift
yaml_of(gra) ==
    LET bnd_txt == [b \in bond_keys(gra) |->
                       join("-", [i \in 1 .. 2 |-> str(sorted(b)[i])])]
    IN  [atoms |-> transform_values(atoms(gra),
                       [x \in Range(atoms(gra)) |->
                           zip_dict(ATM_PROP_NAMES, x)]),
         bonds |-> [t \in { bnd_txt[b] : b \in bond_keys(gra) } |->
                       zip_dict(BND_PROP_NAMES,
                           bonds(gra)[CHOOSE b \in bond_keys(gra) :
                                          bnd_txt[b] = t])]]

\* yaml_dictionary(gra, one_indexed): the dictionaries it may return, or the
\* exception of the relabel call
yaml_dictionary(gra, one_indexed, dbg) ==
    IF one_indexed
    THEN { IF r.kind = "graph" THEN yaml_of(r.gra) ELSE r :
             r \in relabel(gra, [k \in atom_keys(gra) |-> k + 1], dbg) }
    ELSE { yaml_of(gra) }

\* the reader that leaves one-indexed keys as they are
from_yaml_dictionary_unshifted(yaml_gra_dct, one_indexed, dbg) ==
    LET atm_dct == transform_values(yaml_gra_dct.atoms,
                       [x \in Range(yaml_gra_dct.atoms) |->
                           prop_tuple(ATM_PROP_NAMES, x)])
        key_of == [t \in DOMAIN yaml_gra_dct.bonds |->
                      { int(p) : p \in Range(split(t, "-")) }]
    IN  UNION { from_atoms_and_bonds(atm_dct,
                    transform_values(b,
                        [x \in Range(b) |-> prop_tuple(BND_PROP_NAMES, x)])) :
                  b \in transform_keys(yaml_gra_dct.bonds, key_of) }

\* from_yaml_dictionary(yaml_gra_dct, one_indexed): what it may return
from_yaml_dictionary(yaml_gra_dct, one_indexed, dbg) ==
    LET atm_dct == transform_values(yaml_gra_dct.atoms,
                       [x \in Range(yaml_gra_dct.atoms) |->
                           prop_tuple(ATM_PROP_NAMES, x)])
        key_of == [t \in DOMAIN yaml_gra_dct.bonds |->
                      { int(p) : p \in Range(split(t, "-")) }]
        read == UNION { from_atoms_and_bonds(atm_dct,
                          transform_values(b,
                              [x \in Range(b) |->
                                  prop_tuple(BND_PROP_NAMES, x)])) :
                        b \in transform_keys(yaml_gra_dct.bonds, key_of) }
    IN  IF one_indexed
        THEN UNION { IF g.kind = "graph"
                     THEN relabel(g.gra,
                              [k \in atom_keys(g.gra) |-> k - 1], dbg)
                     ELSE { g } : g \in read }
        ELSE read

\* --------------------------------------------------------- the graphs tried
\* the atom and bond property tuples of the graphs written and read
AtomProps == { << "H", 0, None >>, << "C", 1, 1 >> }
BondProps == { << 1, None >>, << 2, 0 >> }

\* the atom keys of the graphs written and read: one and two digits long,
\* in both index modes
YamlKeys == { 0, 1, 9, 10 }

PairsOf(S) == { k \in SUBSET S : Cardinality(k) = 2 }

\* the graphs with atom keys in keys, atom and bond properties in aprops
\* and bprops, at most na atoms and at most nb bonds
GraphsOver(keys, aprops, bprops, na, nb) ==
    UNION { { << a, b >> :
                a \in [S -> aprops],
                b \in UNION { [B -> bprops] :
                        B \in { B \in SUBSET PairsOf(S) :
                                  Cardinality(B) <= nb } } } :
            S \in { S \in SUBSET keys : Cardinality(S) <= na } }

YamlGraphs ==
    GraphsOver(YamlKeys, AtomProps, BondProps, MaxGraphAtoms, MaxGraphBonds)

\* the graphs relabelled: keys 0 .. MaxGraphKey, each atom and bond with
\* properties of its own
RelabelGraphs ==
    UNION { { << [k \in S |-> << IF k % 2 = 0 THEN "C" ELSE "H", k, None >>],
                 [b \in B |-> << 1 + sorted(b)[1], None >>] >> :
                B \in { B \in SUBSET PairsOf(S) :
                          Cardinality(B) <= MaxGraphBonds } } :
            S \in SUBSET (0 .. MaxGraphKey) }

\* the mappings handed to relabel: any keys of 0 .. MaxGraphKey to any
KeyMaps ==
    UNION { [S -> 0 .. MaxGraphKey] : S \in SUBSET (0 .. MaxGraphKey) }

\* ------------------------------------------------------------ graph calls
\* the variables of a TS-geometry call, which a graph call leaves alone
geomVars ==
    << rxn, rct_geos, recipe, kwargs, tsg, dist_dct, seedCalls, geo_init,
       joinCalls, bmatCalls, refCalls, printed, geo >>

NoGeometryCall ==
    /\ rxn = << >>
    /\ rct_geos = << >>
    /\ recipe = "none"
    /\ kwargs = NoKwargs
    /\ tsg = Unread
    /\ dist_dct = << >>
    /\ seedCalls = << >>
    /\ geo_init = NoGeo
    /\ joinCalls = << >>
    /\ bmatCalls = << >>
    /\ refCalls = << >>
    /\ printed = << >>
    /\ geo = NoGeo

\* a call of relabel, or a graph written and read back, as a dictionary or
\* as a string
GraphInit ==
    /\ \/ /\ entry = "relabel"
          /\ args \in [gra : RelabelGraphs, atm_key_dct : KeyMaps]
       \/ /\ entry \in { "yaml_dictionary", "string" }
          /\ args \in [gra : YamlGraphs, one_indexed : BOOLEAN]
    /\ debug \in BOOLEAN
    /\ pc = "call"
    /\ loc = << >>
    /\ result = Pending
    /\ NoGeometryCall

Relabel ==
    /\ pc = "call"
    /\ entry = "relabel"
    /\ result' \in relabel(args.gra, args.atm_key_dct, debug)
    /\ pc' = "done"
    /\ UNCHANGED << entry, args, debug, loc, geomVars >>

\* yaml_gra_dct = yaml_dictionary(gra, one_indexed=b)
WriteYaml ==
    /\ pc = "call"
    /\ entry = "yaml_dictionary"
    /\ \E y \in yaml_dictionary(args.gra, args.one_indexed, debug) :
         IF "kind" \in DOMAIN y
         THEN result' = y /\ pc' = "done" /\ UNCHANGED loc
         ELSE loc' = y /\ pc' = "read" /\ UNCHANGED result
    /\ UNCHANGED << entry, args, debug, geomVars >>

\* from_yaml_dictionary(yaml_gra_dct, one_indexed=b)
ReadYaml ==
    /\ pc = "read"
    /\ entry = "yaml_dictionary"
    /\ result' \in from_yaml_dictionary(loc, args.one_indexed, debug)
    /\ pc' = "done"
    /\ UNCHANGED << entry, args, debug, loc, geomVars >>

\* gra_str = string(gra, one_indexed=b)
WriteString ==
    /\ pc = "call"
    /\ entry = "string"
    /\ \E y \in yaml_dictionary(args.gra, args.one_indexed, debug) :
         IF "kind" \in DOMAIN y
         THEN result' = y /\ pc' = "done" /\ UNCHANGED loc
         ELSE loc' = yaml_dump(y) /\ pc' = "read" /\ UNCHANGED result
    /\ UNCHANGED << entry, args, debug, geomVars >>

\* from_string(gra_str, one_indexed=b)
ReadString ==
    /\ pc = "read"
    /\ entry = "string"
    /\ result' \in from_yaml_dictionary(yaml_load(loc), args.one_indexed,
                                        debug)
    /\ pc' = "done"
    /\ UNCHANGED << entry, args, debug, loc, geomVars >>

GraphNext ==
    \/ Relabel
    \/ WriteYaml
    \/ ReadYaml
    \/ WriteString
    \/ ReadString

GraphSpec == GraphInit /\ [][GraphNext]_vars

\* ------------------------------------------ C14: the graph written and read
\* C14: a graph with non-negative atom keys written with yaml_dictionary (or
\* string) and read back with from_yaml_dictionary (or from_string) in the
\* same index mode is the graph written: same atom keys, bond keys and
\* property tuples, in both index modes, bonds or no bonds
C14_YamlRoundTrip ==
    (entry \in { "yaml_dictionary", "string" } /\ pc = "done") =>
        result = ReturnedGraph(args.gra)

\* a graph with the bond 9-10 and an atom without bonds came back from its
\* one-indexed string, where the bond is written "10-11"
C14_Witness ==
    /\ entry = "string"
    /\ pc = "done"
    /\ args.one_indexed
    /\ bond_keys(args.gra) = { { 9, 10 } }
    /\ 0 \in atom_keys(args.gra)
    /\ result.kind = "graph"

\* ------------------------------------------------------------ C15: relabel
\* the new key of atom key k under the mapping m, identity by default
Renamed(m, k) == IF k \in DOMAIN m THEN m[k] ELSE k

\* C15: relabel renames every atom key k of the graph to atm_key_dct[k] if
\* present and to k otherwise and every bond key to the set of its
\* endpoints' new keys, each key of the result carrying the property tuple
\* of a key renamed to it; a mapping with a key that is not in the graph
\* fails the assertion and no graph is returned; under an injective
\* renaming the numbers of atoms and bonds are kept, every atom and bond
\* keeps its own property tuple and every bond joins atoms of the result
C15_RelabelIsTotalWithIdentityDefault ==
    (entry = "relabel" /\ pc = "done") =>
        LET g == args.gra
            m == args.atm_key_dct
            new_bond(b) == { Renamed(m, k) : k \in b }
            injective == \A k \in atom_keys(g), h \in atom_keys(g) :
                            Renamed(m, k) = Renamed(m, h) => k = h
        IN  /\ (debug /\ ~(DOMAIN m \subseteq atom_keys(g))) =>
                   /\ result.kind = "exception"
                   /\ result.type = "AssertionError"
            /\ result.kind = "graph" =>
                   LET r == result.gra
                   IN  /\ atom_keys(r) = { Renamed(m, k) : k \in atom_keys(g) }
                       /\ bond_keys(r) = { new_bond(b) : b \in bond_keys(g) }
                       /\ \A n \in atom_keys(r) : \E k \in atom_keys(g) :
                             Renamed(m, k) = n /\ atoms(r)[n] = atoms(g)[k]
                       /\ \A n \in bond_keys(r) : \E b \in bond_keys(g) :
                             new_bond(b) = n /\ bonds(r)[n] = bonds(g)[b]
            /\ (injective /\ DOMAIN m \subseteq atom_keys(g)) =>
                   /\ result.kind = "graph"
                   /\ Cardinality(atom_keys(result.gra))
                         = Cardinality(atom_keys(g))
                   /\ Cardinality(bond_keys(result.gra))
                         = Cardinality(bond_keys(g))
                   /\ \A k \in atom_keys(g) :
                         atoms(result.gra)[Renamed(m, k)] = atoms(g)[k]
                   /\ \A b \in bond_keys(g) :
                         bonds(result.gra)[new_bond(b)] = bonds(g)[b]
                   /\ \A n \in bond_keys(result.gra) :
                         n \subseteq atom_keys(result.gra)

\* atoms 0, 1, 2 with the bonds 0-1 and 1-2 relabelled by {0: 2, 2: 0}:
\* key 1 kept by default, the other two swapped, the bonds now 2-1 and 1-0
C15_Witness ==
    /\ entry = "relabel"
    /\ pc = "done"
    /\ args.atm_key_dct = (0 :> 2) @@ (2 :> 0)
    /\ bond_keys(args.gra) = { { 0, 1 }, { 1, 2 } }
    /\ result.kind = "graph"
    /\ atoms(result.gra)[2] = atoms(args.gra)[0]
    /\ bonds(result.gra)[{ 1, 2 }] = bonds(args.gra)[{ 0, 1 }]

\* ===================================================== automol.convert.geom
\* connectivity_graph(geo, dummy, rqq_bond_max, rqh_bond_max, rhh_bond_max).
\* A geometry is a sequence of atoms (symbol, position), the atoms on one
\* line and lengths in units of 0.05 angstrom; atom idx of the code is
\* geo[idx + 1]
MaxGeomAtoms == 3

GeomSymbols == { "C", "H", "X" }

\* positions with the distances 30, 45, 75, 90 and 120 between them (1.5,
\* 2.25, 3.75, 4.5 and 6.0 angstrom), the third at 45 from two others
Positions == { 0, 30, 75, 120 }

\* the geometries of at most MaxGeomAtoms atoms, no two at one position
Geometries ==
    UNION { { g \in [1 .. n -> [symb : GeomSymbols, xyz : Positions]] :
                \A i \in 1 .. n, j \in 1 .. n :
                    i # j => g[i].xyz # g[j].xyz } :
              n \in 0 .. MaxGeomAtoms }

\* the defaults 3.45, 2.6 and 1.9 angstrom, and 5.0, 4.0 and 2.0 angstrom
BondMaxima ==
    { [rqq_bond_max |-> 69, rqh_bond_max |-> 52, rhh_bond_max |-> 38],
      [rqq_bond_max |-> 100, rqh_bond_max |-> 80, rhh_bond_max |-> 40] }

\* numpy.linalg.norm(numpy.subtract(xyz1, xyz2)) of atoms idx1 and idx2
distance(geom, idx1, idx2) ==
    LET d == geom[idx1 + 1].xyz - geom[idx2 + 1].xyz
    IN  IF d < 0 THEN 0 - d ELSE d

\* _are_bonded(idx_pair), the tests in the order of the code
are_bonded(geom, idx1, idx2, mx) ==
    LET sym1 == geom[idx1 + 1].symb
        sym2 == geom[idx2 + 1].symb
        dist == distance(geom, idx1, idx2)
    IN  IF "X" \in { sym1, sym2 } THEN FALSE
        ELSE IF "H" \in { sym1, sym2 } THEN dist < mx.rqh_bond_max
        ELSE IF sym1 = "H" /\ sym2 = "H" THEN dist < mx.rhh_bond_max
        ELSE dist < mx.rqq_bond_max

\* automol.geom.dummy_atom_indices(geo)
dummy_atom_indices(geom) == { i \in 0 .. Len(geom) - 1 : geom[i + 1].symb = "X" }

\* min([[i, _distance([idx1, i])] for i in idxs if i != idx1],
\*     key=lambda x: x[1])[0]: of the atoms at the least distance the one
\* listed first
nearest(geom, idx1) ==
    LET others == (0 .. Len(geom) - 1) \ { idx1 }
    IN  CHOOSE i \in others :
          \A j \in others :
            \/ distance(geom, idx1, i) < distance(geom, idx1, j)
            \/ distance(geom, idx1, i) = distance(geom, idx1, j) /\ i <= j

\* automol.create.graph.from_data(atom_symbols=, bond_keys=, bond_orders=)
from_data(atom_symbols, bnd_keys, bond_orders) ==
    << [k \in DOMAIN atom_symbols |-> << atom_symbols[k], 0, None >>],
       [b \in bnd_keys |-> << bond_orders[b], None >>] >>

\* connectivity_graph: the graph returned, or the ValueError of min() over
\* no atoms for a dummy atom that is the only atom
connectivity_graph(geom, dummy, mx) ==
    LET idxs == 0 .. Len(geom) - 1
        atm_symb_dct == [i \in idxs |-> geom[i + 1].symb]
        bnd_keys == { { i, j } : i \in idxs, j \in idxs } \cap
                    { b \in PairsOf(idxs) :
                        are_bonded(geom, sorted(b)[1], sorted(b)[2], mx) }
        bonded == IF dummy
                  THEN { idx1 \in dummy_atom_indices(geom) :
                           distance(geom, idx1, nearest(geom, idx1))
                               < mx.rhh_bond_max }
                  ELSE { }
        dummy_keys == { { idx1, nearest(geom, idx1) } : idx1 \in bonded }
        bnd_ord_dct == update([b \in bnd_keys |-> 1],
                              [b \in dummy_keys |-> 0])
    IN  IF dummy /\ dummy_atom_indices(geom) # { } /\ Len(geom) = 1
        THEN Exception("ValueError", "min()")
        ELSE ReturnedGraph(from_data(atm_symb_dct,
                                     bnd_keys \cup dummy_keys, bnd_ord_dct))

GeomInit ==
    /\ entry = "connectivity_graph"
    /\ \E mx \in BondMaxima :
         args \in [geom : Geometries, dummy : BOOLEAN, bond_max : { mx }]
    /\ debug \in BOOLEAN
    /\ pc = "call"
    /\ loc = << >>
    /\ result = Pending
    /\ NoGeometryCall

ConnectivityGraph ==
    /\ pc = "call"
    /\ entry = "connectivity_graph"
    /\ result' = connectivity_graph(args.geom, args.dummy, args.bond_max)
    /\ pc' = "done"
    /\ UNCHANGED << entry, args, debug, loc, geomVars >>

GeomNext == ConnectivityGraph

GeomSpec == GeomInit /\ [][GeomNext]_vars

\* ---------------------------------------- C16: the bonds of non-dummy atoms
\* the maximum distance the pair type of two non-dummy atoms selects
BondMaxOf(sym1, sym2, mx) ==
    IF sym1 = "H" /\ sym2 = "H" THEN mx.rhh_bond_max
    ELSE IF sym1 = "H" \/ sym2 = "H" THEN mx.rqh_bond_max
    ELSE mx.rqq_bond_max

\* C16: in the graph returned, two non-dummy atoms are bonded iff their
\* distance is below the maximum of their pair type (heavy-heavy
\* rqq_bond_max, heavy-hydrogen rqh_bond_max, hydrogen-hydrogen
\* rhh_bond_max), every such bond has order 1, and no bond of order 1 holds
\* a dummy atom
C16_BondedByPairType ==
    (entry = "connectivity_graph" /\ pc = "done"
        /\ result.kind = "graph") =>
        LET geom == args.geom
            r == result.gra
        IN  /\ \A b \in PairsOf(0 .. Len(geom) - 1) :
                 LET i == sorted(b)[1]
                     j == sorted(b)[2]
                 IN  "X" \notin { geom[i + 1].symb, geom[j + 1].symb } =>
                       /\ b \in bond_keys(r) <=>
                            distance(geom, i, j)
                                < BondMaxOf(geom[i + 1].symb,
                                            geom[j + 1].symb, args.bond_max)
                       /\ b \in bond_keys(r) => bonds(r)[b][1] = 1
            /\ \A b \in bond_keys(r) :
                 bonds(r)[b][1] = 1 =>
                     \A k \in b : geom[k + 1].symb # "X"

\* ------------------------------------------- C17: the bonds of dummy atoms
\* the non-dummy atoms at the least distance from atom idx1
NearestNonDummy(geom, idx1) ==
    LET real == { i \in 0 .. Len(geom) - 1 : geom[i + 1].symb # "X" }
    IN  { i \in real : \A j \in real :
            distance(geom, idx1, i) <= distance(geom, idx1, j) }

\* C17: with dummy = True every dummy atom has a bond exactly when its
\* nearest non-dummy neighbour is closer than rhh_bond_max, that bond is its
\* only one, joins it to such a nearest non-dummy neighbour and has order
\* 0; with dummy = False no bond of the graph holds a dummy atom
C17_DummyBondedToNearestNonDummy ==
    (entry = "connectivity_graph" /\ pc = "done"
        /\ result.kind = "graph") =>
        LET geom == args.geom
            r == result.gra
            of(d) == { b \in bond_keys(r) : d \in b }
        IN  \A d \in dummy_atom_indices(geom) :
              IF args.dummy
              THEN LET nn == { i \in NearestNonDummy(geom, d) :
                                 distance(geom, d, i)
                                     < args.bond_max.rhh_bond_max }
                   IN  /\ nn = { } => of(d) = { }
                       /\ nn # { } =>
                            /\ Cardinality(of(d)) = 1
                            /\ \E i \in nn : of(d) = { { d, i } }
                            /\ \A b \in of(d) : bonds(r)[b][1] = 0
              ELSE of(d) = { }

\* ======================================================= automol.util._util
\* equivalence_partition(iterable, relation): iterable is the sequence of
\* objects in the order they are iterated, an object possibly more than
\* once; relation is the truth value of relation(o1, o2) for every pair
MaxObjs == 3
MaxIter == 3

Objs == 1 .. MaxObjs

Iterables == UNION { [1 .. n -> Objs] : n \in 0 .. MaxIter }

\* the equivalence relations on Objs, and four relations that are none:
\* never true, o1 < o2, o1 <= o2, and o1 # o2
Relations ==
    { [p \in Objs \X Objs |-> f[p[1]] = f[p[2]]] : f \in [Objs -> Objs] }
        \cup { [p \in Objs \X Objs |-> FALSE],
               [p \in Objs \X Objs |-> p[1] < p[2]],
               [p \in Objs \X Objs |-> p[1] <= p[2]],
               [p \in Objs \X Objs |-> p[1] # p[2]] }

\* the loop body that never finds a class
place_new(clss, found, obj) == Append(clss, { obj })

\* cls.add(obj) for the class found, classes.append(set([obj])) if none was
\* (found = 0)
place(clss, found, obj) ==
    IF found = 0 THEN Append(clss, { obj })
    ELSE [clss EXCEPT ![found] = @ \cup { obj }]

\* the first class whose member next(iter(cls)), given by reps, is related
\* to obj, or 0
find(clss, reps, obj, relation) ==
    IF \E c \in DOMAIN clss : relation[<< reps[c], obj >>]
    THEN CHOOSE c \in DOMAIN clss :
           /\ relation[<< reps[c], obj >>]
           /\ \A b \in 1 .. c - 1 : ~relation[<< reps[b], obj >>]
    ELSE 0

UtilInit ==
    /\ entry = "equivalence_partition"
    /\ args \in [iterable : Iterables, relation : Relations]
    /\ debug \in BOOLEAN
    /\ pc = "for"
    /\ loc = [classes |-> << >>, i |-> 1]
    /\ result = Pending
    /\ NoGeometryCall

\* one pass of `for obj in iterable`: next(iter(cls)) is some member of cls
ForObj ==
    /\ pc = "for"
    /\ entry = "equivalence_partition"
    /\ loc.i <= Len(args.iterable)
    /\ \E reps \in [DOMAIN loc.classes -> Objs] :
         /\ \A c \in DOMAIN reps : reps[c] \in loc.classes[c]
         /\ LET obj == args.iterable[loc.i]
                found == find(loc.classes, reps, obj, args.relation)
            IN  loc' = [classes |-> place(loc.classes, found, obj),
                        i |-> loc.i + 1]
    /\ UNCHANGED << entry, args, debug, pc, result, geomVars >>

\* return classes
ReturnClasses ==
    /\ pc = "for"
    /\ entry = "equivalence_partition"
    /\ loc.i > Len(args.iterable)
    /\ result' = [kind |-> "classes", classes |-> loc.classes]
    /\ pc' = "done"
    /\ UNCHANGED << entry, args, debug, loc, geomVars >>

UtilNext ==
    \/ ForObj
    \/ ReturnClasses

UtilSpec == UtilInit /\ [][UtilNext]_vars

\* ------------------------------------------------ C22: the classes returned
IsEquivalence(relation) ==
    /\ \A a \in Objs : relation[<< a, a >>]
    /\ \A a \in Objs, b \in Objs :
          relation[<< a, b >>] => relation[<< b, a >>]
    /\ \A a \in Objs, b \in Objs, c \in Objs :
          (relation[<< a, b >>] /\ relation[<< b, c >>])
              => relation[<< a, c >>]

\* the classes are non-empty, no two of them share an object, and their
\* union is the set objs
IsPartition(clss, objs) ==
    /\ \A c \in DOMAIN clss : clss[c] # { }
    /\ \A c \in DOMAIN clss, d \in DOMAIN clss :
          c # d => clss[c] \cap clss[d] = { }
    /\ UNION { clss[c] : c \in DOMAIN clss } = objs

\* two objects are in one class exactly if relation holds between them
ClassesFollow(clss, objs, relation) ==
    \A a \in objs, b \in objs :
        (\E c \in DOMAIN clss : a \in clss[c] /\ b \in clss[c])
            <=> relation[<< a, b >>]

NoRepeats(iterable) ==
    \A i \in DOMAIN iterable, j \in DOMAIN iterable :
        i # j => iterable[i] # iterable[j]

\* C22: the classes returned are a partition of the set of input objects,
\* for any relation and any iterable; for an equivalence relation two
\* objects are in one class exactly if relation holds between them
C22_ReturnsPartition ==
    (entry = "equivalence_partition" /\ pc = "done") =>
        /\ IsPartition(result.classes, Range(args.iterable))
        /\ IsEquivalence(args.relation) =>
              ClassesFollow(result.classes, Range(args.iterable),
                            args.relation)

\* C22, for the inputs it holds for: the classes returned are a partition
\* of the set of input objects if relation is an equivalence relation or no
\* object is iterated twice; for an equivalence relation two objects are in
\* one class exactly if relation holds between them, in whatever order the
\* objects come and whichever member stands for a class
C22_PartitionOfDistinctOrEquivalent ==
    (entry = "equivalence_partition" /\ pc = "done") =>
        /\ (IsEquivalence(args.relation) \/ NoRepeats(args.iterable)) =>
              IsPartition(result.classes, Range(args.iterable))
        /\ IsEquivalence(args.relation) =>
              ClassesFollow(result.classes, Range(args.iterable),
                            args.relation)

\* the objects 2, 1, 2 under the relation that joins 1 and 2 only came back
\* as the one class {1, 2}
C22_Witness ==
    /\ entry = "equivalence_partition"
    /\ pc = "done"
    /\ args.iterable = << 2, 1, 2 >>
    /\ IsEquivalence(args.relation)
    /\ args.relation[<< 1, 2 >>]
    /\ ~args.relation[<< 1, 3 >>]
    /\ result.classes = << { 1, 2 } >>

\* ===================================================== automol.create.vmat
\* from_data(symbols, key_matrix, name_matrix=None, one_indexed=False). A
\* matrix is the sequence of its rows, row i of the code being rows[i + 1];
\* a key is a number or None; a name is a string (its characters) or None
MaxVmatAtoms == 4

Str(chars) == [type |-> "str", chars |-> chars]
NoName == [type |-> "NoneType", chars |-> << >>]

Min(a, b) == IF a < b THEN a ELSE b

\* phydat.ptab.to_symbol(symbol): the symbol with its first letter in
\* upper case
to_symbol(symb) == IF symb = "c" THEN "C" ELSE IF symb = "h" THEN "H" ELSE symb

\* list(row) + [None]*(3-len(row)), None being the value none
padded(row, none) == row \o [k \in 1 .. 3 - Len(row) |-> none]

\* numpy.array(rows, dtype=numpy.object_): two-dimensional if there are
\* rows and all are of one length, and else one-dimensional, an array of
\* the rows
array(rows) ==
    LET lens == { Len(rows[r]) : r \in DOMAIN rows }
    IN  IF rows # << >> /\ Cardinality(lens) = 1
        THEN [ndim |-> 2,
              shape |-> << Len(rows), CHOOSE l \in lens : TRUE >>,
              rows |-> rows]
        ELSE [ndim |-> 1, shape |-> << Len(rows) >>, rows |-> rows]

\* numpy.triu_indices(n, m=3): row below or at column, as (row, column)
\* counted from 1
triu_indices(n) == { p \in (1 .. n) \X (1 .. 3) : p[2] >= p[1] }

\* numpy.tril_indices(n, -1, m=3): row above column
tril_indices(n) == { p \in (1 .. n) \X (1 .. 3) : p[1] > p[2] }

Matrix(rows) == [kind |-> "matrix", rows |-> rows]

\* a decrement made whatever one_indexed is
decrement_always(one_indexed) == 1

\* 1 if one_indexed else 0
decrement(one_indexed) == IF one_indexed THEN 1 ELSE 0

\* _key_matrix(key_mat, natms, one_indexed) with __debug__ = dbg
_key_matrix(key_mat, natms, one_indexed, dbg) ==
    LET a == array([r \in DOMAIN key_mat |-> padded(key_mat[r], None)])
        m == Len(a.rows)
        lower == tril_indices(m)
    IN  IF dbg /\ ~(a.ndim = 2 /\ a.shape = << natms, 3 >>)
        THEN Exception("AssertionError",
                       "key_mat.ndim == 2 and key_mat.shape == (natms, 3)")
        ELSE IF a.ndim = 1
        THEN Exception("IndexError", "key_mat[1:, 0]")
        ELSE IF \E p \in lower : a.rows[p[1]][p[2]] = None
        THEN Exception("TypeError", "key_mat[1:, 0] -= 1 if one_indexed else 0")
        ELSE IF \E p \in triu_indices(natms) : p[1] > m
        THEN Exception("IndexError", "key_mat[triu_idxs]")
        ELSE Matrix([r \in 1 .. m |-> [j \in DOMAIN a.rows[r] |->
                 IF << r, j >> \in triu_indices(natms) THEN None
                 ELSE IF << r, j >> \in lower
                 THEN a.rows[r][j] - decrement(one_indexed)
                 ELSE a.rows[r][j]]])

\* the name matrix built when name_mat is None: 'R{:d}'.format(row),
\* 'A{:d}'.format(row), 'D{:d}'.format(row) in an empty (natms, 3) array
default_names(natms) ==
    [r \in 1 .. natms |->
        [j \in 1 .. 3 |->
            IF r > j THEN Str(<< << "R", "A", "D" >>[j] >> \o str(r - 1))
            ELSE NoName]]

\* _name_matrix(name_mat, natms) with __debug__ = dbg; name_mat is the
\* rows given, or not given (None)
_name_matrix(name_mat, natms, dbg) ==
    LET rows == IF name_mat.given THEN name_mat.rows
                ELSE default_names(natms)
        a == array([r \in DOMAIN rows |-> padded(rows[r], NoName)])
        m == Len(a.rows)
    IN  IF dbg /\ ~(a.ndim = 2 /\ a.shape = << natms, 3 >>)
        THEN Exception("AssertionError",
                       "name_mat.ndim == 2 and name_mat.shape == (natms, 3)")
        ELSE IF a.ndim = 1
        THEN Exception("IndexError", "name_mat[triu_idxs]")
        ELSE IF dbg /\ \E p \in tril_indices(m) :
                          a.rows[p[1]][p[2]].type # "str"
        THEN Exception("AssertionError", "isinstance(name, str)")
        ELSE Matrix([r \in 1 .. m |-> [j \in DOMAIN a.rows[r] |->
                 IF << r, j >> \in triu_indices(m) THEN NoName
                 ELSE a.rows[r][j]]])

\* from_data of automol.create.vmat: the V-matrix, or the exception raised
vmat_from_data(symbols, key_matrix, name_matrix, one_indexed, dbg) ==
    LET symbs == [i \in DOMAIN symbols |-> to_symbol(symbols[i])]
        natms == Len(symbs)
        key_mat == _key_matrix(key_matrix, natms, one_indexed, dbg)
        name_mat == _name_matrix(name_matrix, natms, dbg)
    IN  IF key_mat.kind = "exception" THEN key_mat
        ELSE IF name_mat.kind = "exception" THEN name_mat
        ELSE [kind |-> "vmat",
              vma |-> [i \in 1 .. Min(natms, Min(Len(key_mat.rows),
                                                 Len(name_mat.rows))) |->
                          << symbs[i], key_mat.rows[i], name_mat.rows[i] >>]]

\* ------------------------------------------------------ the matrices tried
\* the key of row r, column j (r > j) in a zero-indexed key matrix: the
\* atom j rows up, or the atom of row j
KeyOf(pattern, r, j) == IF pattern = "chain" THEN r - 1 - j ELSE j - 1

\* the key matrices of m rows: rows as long as the keys they need
\* ("ragged"), that without the last key of the last row ("short"), rows of
\* three keys with any key where none is needed ("full"), and rows of four
\* ("wide")
KeyMatrices(m, one_indexed) ==
    { [r \in 1 .. m |->
          [j \in 1 .. (CASE shape = "ragged" -> Min(r - 1, 3)
                         [] shape = "short" ->
                              IF r = m /\ r > 1 THEN Min(r - 1, 3) - 1
                              ELSE Min(r - 1, 3)
                         [] shape = "full" -> 3
                         [] shape = "wide" -> 4) |->
              IF r > j /\ j <= 3
              THEN KeyOf(pattern, r, j) + (IF one_indexed THEN 1 ELSE 0)
              ELSE 9]] :
        shape \in { "ragged", "short", "full", "wide" },
        pattern \in { "chain", "star" } }

\* the name matrices of natms rows: none given, names of one's own, and
\* those with a number where the last name is needed
NameMatrices(natms) ==
    { [given |-> FALSE, rows |-> << >>] }
        \cup { [given |-> TRUE,
                rows |-> [r \in 1 .. natms |-> [j \in 1 .. Min(r - 1, 3) |->
                    IF bad /\ r = natms
                    THEN [type |-> "int", chars |-> << >>]
                    ELSE Str(<< "x" >> \o str(r - 1) \o str(j - 1))]]] :
               bad \in BOOLEAN }

VmatInit ==
    /\ entry = "vmat.from_data"
    /\ \E natms \in 0 .. MaxVmatAtoms, one_indexed \in BOOLEAN :
         args \in [symbols : { [i \in 1 .. natms |->
                                  IF i = 1 THEN first ELSE "H"] :
                               first \in { "C", "c" } },
                   key_matrix :
                       UNION { KeyMatrices(m, one_indexed) :
                                 m \in { natms - 1, natms, natms + 1 }
                                           \cap Nat },
                   name_matrix : NameMatrices(natms),
                   one_indexed : { one_indexed }]
    /\ debug \in BOOLEAN
    /\ pc = "call"
    /\ loc = << >>
    /\ result = Pending
    /\ NoGeometryCall

VmatFromData ==
    /\ pc = "call"
    /\ entry = "vmat.from_data"
    /\ result' = vmat_from_data(args.symbols, args.key_matrix,
                                args.name_matrix, args.one_indexed, debug)
    /\ pc' = "done"
    /\ UNCHANGED << entry, args, debug, loc, geomVars >>

VmatNext == VmatFromData

VmatSpec == VmatInit /\ [][VmatNext]_vars

\* --------------------------------------------------- C23: the V-matrix rows
\* the key matrix has a row for every symbol, no row with more than three
\* columns
WellShaped(km, natms) ==
    /\ Len(km) = natms
    /\ \A r \in DOMAIN km : Len(km[r]) <= 3

\* every key below the diagonal is given
LowerGiven(km) ==
    \A r \in DOMAIN km, j \in 1 .. 3 :
        r > j => (j <= Len(km[r]) /\ km[r][j] # None)

\* the name matrix is left out, or has a string wherever a name is needed
NamesFine(nm) ==
    nm.given =>
        \A r \in DOMAIN nm.rows, j \in 1 .. 3 :
            r > j => (j <= Len(nm.rows[r]) /\ nm.rows[r][j].type = "str")

\* the V-matrix returned has a row for every symbol; in row i (from 0) the
\* key of column j is None for j >= i and else the input key, less 1 if
\* one_indexed; without a name matrix the names of row i are R<i>, A<i> and
\* D<i> in the columns 0, 1 and 2 below the diagonal and None elsewhere
RowsAsStated ==
    LET km == args.key_matrix
        natms == Len(args.symbols)
        names == << "R", "A", "D" >>
    IN  /\ result.kind = "vmat"
        /\ Len(result.vma) = natms
        /\ \A r \in 1 .. natms :
             /\ result.vma[r][1] \in { "C", "H" }
             /\ Len(result.vma[r][2]) = 3
             /\ \A j \in 1 .. 3 :
                  IF j >= r THEN result.vma[r][2][j] = None
                  ELSE /\ j <= Len(km[r])
                       /\ result.vma[r][2][j] =
                            km[r][j] - (IF args.one_indexed THEN 1 ELSE 0)
             /\ ~args.name_matrix.given =>
                  \A j \in 1 .. 3 :
                      result.vma[r][3][j] =
                          IF r > j
                          THEN Str(<< names[j] >> \o str(r - 1))
                          ELSE NoName

Rejected ==
    result.kind = "exception" /\ result.type = "AssertionError"

\* C23: for a key matrix of natms rows of at most three columns from_data
\* returns the rows as stated; any other key matrix is rejected by
\* assertion
C23_VmatRows ==
    (entry = "vmat.from_data" /\ pc = "done") =>
        LET natms == Len(args.symbols)
        IN  /\ (WellShaped(args.key_matrix, natms)
                  /\ NamesFine(args.name_matrix)) => RowsAsStated
            /\ (debug /\ ~WellShaped(args.key_matrix, natms)) => Rejected

\* C23, for the inputs it holds for: for at least one symbol and a key
\* matrix of natms rows of at most three columns with every key below the
\* diagonal given, from_data returns the rows as stated; a key missing
\* below the diagonal is a TypeError; a key matrix of another shape is
\* rejected by assertion, and so is the empty key matrix of no symbols
C23_VmatRowsOfGivenKeys ==
    (entry = "vmat.from_data" /\ pc = "done") =>
        LET natms == Len(args.symbols)
            km == args.key_matrix
        IN  /\ (natms >= 1 /\ WellShaped(km, natms) /\ LowerGiven(km)
                  /\ NamesFine(args.name_matrix)) => RowsAsStated
            /\ (natms >= 1 /\ WellShaped(km, natms) /\ ~LowerGiven(km)) =>
                   /\ result.kind = "exception"
                   /\ result.type = "TypeError"
            /\ (debug /\ ~WellShaped(km, natms)) => Rejected
            /\ (debug /\ natms = 0) => Rejected
            /\ natms = 0 => result.kind = "exception"

\* four symbols with their one-indexed keys in rows of 0, 1, 2 and 3
\* columns and no names: the last row came back as (H, (2, 1, 0),
\* (R3, A3, D3))
C23_Witness ==
    /\ entry = "vmat.from_data"
    /\ pc = "done"
    /\ args.one_indexed
    /\ ~args.name_matrix.given
    /\ args.key_matrix = << << >>, << 1 >>, << 2, 1 >>, << 3, 2, 1 >> >>
    /\ result.kind = "vmat"
    /\ Len(result.vma) = 4
    /\ result.vma[4] = << "H", << 2, 1, 0 >>,
                          << Str(<< "R", "3" >>), Str(<< "A", "3" >>),
                             Str(<< "D", "3" >>) >> >>

====
